---- MODULE Spec2Model ----
(***************************************************************************)
(* Lens-stock grid of the optical-practice console: the add-stock form     *)
(* (AddLenses), the remove-stock form (LensOut), the read-only stock grid   *)
(* (LensStock) and the 'lenses' table of the record store they share.       *)
(*                                                                         *)
(* Representation                                                          *)
(*   - a JavaScript string that the code parses or formats is a sequence   *)
(*     of one-character strings (<<"-","2",".","0","0">> is "-2.00");       *)
(*   - an SPH or CYL number is an integer number of hundredths of a         *)
(*     dioptre (-2.00 is -200); quantities are integers;                    *)
(*   - NaN is the reserved number NaN below; the comparisons the code       *)
(*     makes on possibly-NaN numbers go through JsGt/JsGe/JsLe;             *)
(*   - null is the reserved string NULL; select values are TLA+ strings.  *)
(***************************************************************************)
EXTENDS Integers, Sequences, FiniteSets, TLC

----------------------------------------------------------------------------
(* JavaScript numbers and strings *)

NaN == -1000000000
NULL == "null"

isNaN(x) == x = NaN
JsGt(a, b) == a # NaN /\ b # NaN /\ a > b
JsGe(a, b) == a # NaN /\ b # NaN /\ a >= b
JsLe(a, b) == a # NaN /\ b # NaN /\ a <= b

Digits == <<"0", "1", "2", "3", "4", "5", "6", "7", "8", "9">>
IsDigit(c) == \E d \in 1..10 : Digits[d] = c
DigitVal(c) == (CHOOSE d \in 1..10 : Digits[d] = c) - 1
IsSpace(c) == c = " "

RECURSIVE NatToString(_)
NatToString(n) ==
    IF n < 10 THEN <<Digits[n + 1]>>
    ELSE NatToString(n \div 10) \o <<Digits[(n % 10) + 1]>>

\* Number.prototype.toString of an integer or NaN
NumToString(n) ==
    IF isNaN(n) THEN <<"N", "a", "N">>
    ELSE IF n < 0 THEN <<"-">> \o NatToString(-n)
    ELSE NatToString(n)

\* Number.prototype.toFixed(2) of a number given in hundredths
toFixed2(h) ==
    LET a == IF h < 0 THEN -h ELSE h
    IN  (IF h < 0 THEN <<"-">> ELSE <<>>)
        \o NatToString(a \div 100)
        \o <<".", Digits[((a % 100) \div 10) + 1], Digits[(a % 10) + 1]>>

\* String.prototype.trim
RECURSIVE TrimLeft(_)
TrimLeft(s) == IF s # <<>> /\ IsSpace(Head(s)) THEN TrimLeft(Tail(s)) ELSE s
RECURSIVE TrimRight(_)
TrimRight(s) ==
    IF s # <<>> /\ IsSpace(s[Len(s)]) THEN TrimRight(SubSeq(s, 1, Len(s) - 1)) ELSE s
trim(s) == TrimRight(TrimLeft(s))

\* the longest prefix of s made of digits
RECURSIVE DigitPrefix(_)
DigitPrefix(s) ==
    IF s # <<>> /\ IsDigit(Head(s)) THEN <<Head(s)>> \o DigitPrefix(Tail(s)) ELSE <<>>

RECURSIVE DigitsValue(_)
DigitsValue(ds) ==
    IF ds = <<>> THEN 0
    ELSE 10 * DigitsValue(SubSeq(ds, 1, Len(ds) - 1)) + DigitVal(ds[Len(ds)])

Drop(s, n) == SubSeq(s, n + 1, Len(s))

\* parseInt(s), radix 10: leading blanks, an optional sign, then digits;
\* whatever follows the digits is ignored; no digit gives NaN
parseInt(s) ==
    LET t    == TrimLeft(s)
        neg  == t # <<>> /\ Head(t) = "-"
        sgn  == t # <<>> /\ Head(t) \in {"-", "+"}
        body == IF sgn THEN Tail(t) ELSE t
        ds   == DigitPrefix(body)
    IN  IF ds = <<>> THEN NaN
        ELSE IF neg THEN -DigitsValue(ds) ELSE DigitsValue(ds)

\* parseFloat(s) in hundredths: leading blanks, an optional sign, digits, an
\* optional point and digits (two decimals are kept: the axes have no more)
parseFloat(s) ==
    LET t    == TrimLeft(s)
        neg  == t # <<>> /\ Head(t) = "-"
        sgn  == t # <<>> /\ Head(t) \in {"-", "+"}
        body == IF sgn THEN Tail(t) ELSE t
        ip   == DigitPrefix(body)
        rest == Drop(body, Len(ip))
        fp   == IF rest # <<>> /\ Head(rest) = "." THEN DigitPrefix(Tail(rest)) ELSE <<>>
        d1   == IF Len(fp) >= 1 THEN DigitVal(fp[1]) ELSE 0
        d2   == IF Len(fp) >= 2 THEN DigitVal(fp[2]) ELSE 0
        mag  == 100 * DigitsValue(ip) + 10 * d1 + d2
    IN  IF ip = <<>> /\ fp = <<>> THEN NaN
        ELSE IF neg THEN -mag ELSE mag

\* String.prototype.split('__')
RECURSIVE SplitSep(_, _)
SplitSep(s, cur) ==
    IF s = <<>> THEN <<cur>>
    ELSE IF Len(s) >= 2 /\ s[1] = "_" /\ s[2] = "_"
         THEN <<cur>> \o SplitSep(Drop(s, 2), <<>>)
         ELSE SplitSep(Tail(s), Append(cur, Head(s)))
split(s) == SplitSep(s, <<>>)

----------------------------------------------------------------------------
(* Axis Generator and Cell Key Codec *)

NumCylSteps == 17
NumSphSteps == 33

cylSteps == [i \in 1..NumCylSteps |-> toFixed2((i - 1) * 25)]
sphSteps == [i \in 1..NumSphSteps |-> toFixed2((i - 1) * 50 - 600)]

\* a key whose two numbers are not separated
CellKey_noSeparator(sph, cyl) == <<"c", "e", "l", "l", "_", "_">> \o sph \o cyl

\* `cell__${sph}__${cyl}` of two formatted numbers
CellKey(sph, cyl) == <<"c", "e", "l", "l", "_", "_">> \o sph \o <<"_", "_">> \o cyl

----------------------------------------------------------------------------
(* Bounds and input sets *)

MaxSubmits == 2       \* submits started, all forms together
MaxEdits == 2         \* form edits (cell values, attributes, filters), all forms together
MaxFailures == 1      \* store calls that fail on the network or the backend

Sessions == {1, 2}    \* browser sessions that may run the add-stock form

\* the cells a user edits by hand, as (sph, cyl) in hundredths
CellChoices == {<<-200, 100>>, <<50, 0>>}
KeyOf(c) == CellKey(toFixed2(c[1]), toFixed2(c[2]))

\* what a user types into a cell of the add-stock grid
AddCellInputs == {<<>>, <<"0">>, <<"1">>, <<"2">>, <<"x">>}

\* further values of a cell of the add-stock grid: a negative number, a decimal
\* number, and the text the bulk helper writes for a quantity that is not a number
MoreAddCellInputs == {<<"-", "1">>, <<"1", ".", "5">>, <<"N", "a", "N">>}

\* what a user enters for a cell of the remove-stock grid
OutCellInputs == {0, 1, 4, 8}

EmptyMeta ==
    [lensType |-> "", lensThickness |-> "", lensColour |-> "", lensDiameter |-> "",
     lensCoating |-> "", restockReason |-> "", restockDetails |-> ""]

\* the product and restock selections a user makes on the add-stock form
MetaChoices ==
    {EmptyMeta,
     [EmptyMeta EXCEPT !.lensType = "CR39", !.lensCoating = "UC", !.restockReason = "New Stock"],
     [EmptyMeta EXCEPT !.lensType = "CR39", !.lensCoating = "HMC"]}

\* default value of a bulk entry
EmptyBulk ==
    [startSph |-> <<>>, endSph |-> <<>>, startCyl |-> <<>>, endCyl |-> <<>>,
     quantity |-> <<>>, quantityUnit |-> "pair"]

BulkEntry(startSph, endSph, startCyl, endCyl, quantity, quantityUnit) ==
    [startSph |-> startSph, endSph |-> endSph, startCyl |-> startCyl, endCyl |-> endCyl,
     quantity |-> quantity, quantityUnit |-> quantityUnit]

MaxBulkOps == 2       \* clicks on 'Apply to Grid'

\* the bulk entries a user fills in: the selects offer the axis values, the
\* quantity is typed
BulkChoices ==
    {BulkEntry(toFixed2(-200), toFixed2(-100), toFixed2(75), toFixed2(100), <<"3">>, "pair"),
     BulkEntry(toFixed2(-200), toFixed2(-100), toFixed2(75), toFixed2(100), <<"3">>, "single"),
     BulkEntry(toFixed2(-200), <<>>, toFixed2(100), <<>>, <<"2">>, "single"),
     BulkEntry(toFixed2(-150), toFixed2(50), toFixed2(100), <<>>, <<"1">>, "pair"),
     BulkEntry(toFixed2(100), toFixed2(-100), toFixed2(0), toFixed2(25), <<"3">>, "pair"),
     BulkEntry(toFixed2(50), toFixed2(50), toFixed2(100), toFixed2(75), <<"1">>, "single"),
     BulkEntry(toFixed2(-200), toFixed2(-150), toFixed2(100), toFixed2(100), <<>>, "pair"),
     BulkEntry(toFixed2(-200), toFixed2(-150), toFixed2(100), toFixed2(100), <<"x">>, "single"),
     BulkEntry(<<>>, toFixed2(-100), toFixed2(75), toFixed2(100), <<"3">>, "pair"),
     BulkEntry(toFixed2(-200), toFixed2(-100), <<>>, toFixed2(100), <<"3">>, "single")}

\* pending grids a user has typed before using the bulk helper
BulkInitGrids ==
    {<<>>,
     <<[key |-> KeyOf(<<-200, 100>>), value |-> <<"1">>],
       [key |-> KeyOf(<<50, 0>>), value |-> <<"2">>]>>,
     <<[key |-> KeyOf(<<50, 0>>), value |-> <<"x">>],
       [key |-> KeyOf(<<-100, 75>>), value |-> <<"6">>]>>}

----------------------------------------------------------------------------
(* The record store: table 'lenses' *)

Row(sph, cyl, quantity, m) ==
    [sph |-> sph, cyl |-> cyl, quantity |-> quantity,
     lens_type |-> m.lens_type, lens_thickness |-> m.lens_thickness,
     lens_colour |-> m.lens_colour, lens_diameter |-> m.lens_diameter,
     lens_coating |-> m.lens_coating,
     restock_reason |-> m.restock_reason, restock_details |-> m.restock_details]

NoAttrs ==
    [lens_type |-> NULL, lens_thickness |-> NULL, lens_colour |-> NULL,
     lens_diameter |-> NULL, lens_coating |-> NULL,
     restock_reason |-> NULL, restock_details |-> NULL]

\* tables the forms may find when they start; a row's id is its index
InitStores ==
    {<<>>,
     <<Row(-200, 100, 2, [NoAttrs EXCEPT !.lens_type = "CR39", !.lens_coating = "UC"]),
       Row(-200, 100, 5, [NoAttrs EXCEPT !.lens_type = "CR39", !.lens_coating = "HMC"]),
       Row(50, 0, 3, NoAttrs)>>}

\* ids of the rows selected by .eq('sph', sph).eq('cyl', cyl)
RowsAt(st, sph, cyl) == {id \in 1..Len(st) : st[id].sph = sph /\ st[id].cyl = cyl}

\* .select('id, quantity') ... .maybeSingle(): one row or none is data, several rows are an error
NoLens == [id |-> 0, quantity |-> 0]   \* data: null
maybeSingle(st, ids) ==
    IF Cardinality(ids) > 1 THEN [error |-> "multiple rows", data |-> NoLens]
    ELSE IF ids = {} THEN [error |-> NULL, data |-> NoLens]
    ELSE LET id == CHOOSE i \in ids : TRUE
         IN  [error |-> NULL, data |-> [id |-> id, quantity |-> st[id].quantity]]

\* an update that deletes the row when its quantity becomes 0
StoreUpdate_deleteEmpty(st, id, patch) ==
    IF patch.quantity = 0
    THEN [i \in 1..(Len(st) - 1) |-> IF i < id THEN st[i] ELSE st[i + 1]]
    ELSE [i \in 1..Len(st) |->
            IF i = id THEN [f \in DOMAIN st[i] |-> IF f \in DOMAIN patch THEN patch[f] ELSE st[i][f]]
            ELSE st[i]]

\* .update(patch).eq('id', id)
StoreUpdate(st, id, patch) ==
    [i \in 1..Len(st) |->
        IF i = id THEN [f \in DOMAIN st[i] |-> IF f \in DOMAIN patch THEN patch[f] ELSE st[i][f]]
        ELSE st[i]]

\* .insert([row])
StoreInsert(st, row) == Append(st, row)

\* sum of quantity over a set of row ids
RECURSIVE SumQuantity(_, _)
SumQuantity(st, ids) ==
    IF ids = {} THEN 0
    ELSE LET id == CHOOSE i \in ids : TRUE
         IN  st[id].quantity + SumQuantity(st, ids \ {id})

----------------------------------------------------------------------------
(* State *)

VARIABLES
    store,            \* table 'lenses': sequence of rows, a row's id is its index
    live,             \* the sessions whose add-stock form is open
    failures,         \* store calls that have failed so far
    addSubmits,       \* add-stock submits started so far
    outSubmits,       \* remove-stock submits started so far
    edits,            \* form edits made so far
    \* AddLenses, one form per session
    addGrid,          \* form value 'grid': sequence of [key, value] in insertion order
    addMeta,          \* form values lensType .. restockDetails
    addIsSubmitting,  \* isSubmitting
    addPc,            \* where onSubmit is: "idle", "lookup" (select awaited), "write" (update/insert awaited)
    lensEntries,      \* lensEntries of the running (or last) submit
    addIdx,           \* index in lensEntries of the entry being processed
    existingLens,     \* result of the lookup of the entry being processed
    successCount,
    errorCount,
    addToast,         \* title of the toast of the last submit
    addCalls,         \* store calls answered in the running (or last) submit
    \* LensOut
    lenses,           \* cached result of query ['lenses']
    refetchPending,   \* a fetch of query ['lenses'] is in flight
    outGrid,          \* form value 'grid': sequence of [key, value] in insertion order
    filters,          \* form values filterLensType, filterLensThickness, filterLensColour, filterLensCoating
    outIsSubmitting,  \* isSubmitting
    outPc,            \* where onSubmit is: "idle", "update" (update awaited)
    removalEntries,   \* removalEntries of the running (or last) submit
    entryIdx,         \* index in removalEntries of the entry being processed
    lensIdx,          \* index in sortedLenses of the lens being updated
    remainingToRemove,
    outToasts,        \* toasts of the running (or last) submit
    outCalls,         \* store calls answered in the running (or last) submit
    lastRun,          \* removalEntries, calls and last toast of the submit before the
                      \* running (or last) one, and the table when that one started
    bulk,             \* form value 'bulk': the fields of the bulk entry
    bulkOps,          \* times 'Apply to Grid' was clicked so far
    applied,          \* the bulk entry of the last click on 'Apply to Grid'
    \* LensStock
    stockFilters,     \* state 'filters': lensType .. lensCoating, 'all' when unset
    \* Appointments
    tz,               \* offset of the browser's local time from UTC, in minutes
    apptTable,        \* table 'appointments': sequence of rows, the id of a row is its index
    appointments,     \* cached result of query ['appointments']: a set of rows with their id
    apptRefetch,      \* a fetch of query ['appointments'] is in flight
    editingAppointment, \* id of the appointment whose edit dialog is open, 0 for null
    editForm,         \* editForm: appointment_date, appointment_time
    isPending,        \* updateAppointmentMutation.isPending
    apptCall,         \* the update sent to the store by the running (or last) mutation
    apptToast,        \* the last toast
    apptSaves,        \* times the edit form was submitted so far
    \* AddFrame and FrameList
    permissions,      \* the permissions useUserRole() grants the current user
    frameTable,       \* table 'frames': sequence of rows in the order of their code
    nextId,           \* the id the table gives the next row
    frames,           \* state 'frames' of FrameList
    framesFetch,      \* a fetchFrames() is in flight
    lensWidth,        \* form value 'lensWidth' of AddFrame
    size,             \* form value 'size' of AddFrame
    frameIsSubmitting, \* isSubmitting of AddFrame
    frameInsert,      \* the row sent by the running (or last) insert of AddFrame
    editFrame,        \* id of editFrame, 0 for null
    editFormData,     \* editFormData: lens_width
    isEditDialogOpen,
    frameCalls,       \* the updates and deletes of FrameList that are awaited
    frameToast,       \* the last toast of the frames pages
    frameOps          \* submits, saves and deletes so far

addFormVars == <<addGrid, addMeta, bulk>>
addRunVars == <<addIsSubmitting, addPc, lensEntries, addIdx, existingLens,
                successCount, errorCount, addToast, addCalls>>
addVars == <<addFormVars, addRunVars, bulkOps, applied>>
outFormVars == <<outGrid, filters>>
outRunVars == <<outIsSubmitting, outPc, removalEntries, entryIdx, lensIdx,
                remainingToRemove, outToasts, outCalls, lastRun>>
outVars == <<lenses, refetchPending, outFormVars, outRunVars>>
lensVars == <<store, live, stockFilters, failures, addSubmits, outSubmits, edits, addVars, outVars>>
apptVars == <<tz, apptTable, appointments, apptRefetch, editingAppointment, editForm,
              isPending, apptCall, apptToast, apptSaves>>
frameVars == <<permissions, frameTable, nextId, frames, framesFetch, lensWidth, size,
               frameIsSubmitting, frameInsert, editFrame, editFormData, isEditDialogOpen,
               frameCalls, frameToast, frameOps>>
pagesVars == <<apptVars, frameVars>>
vars == <<lensVars, pagesVars>>

----------------------------------------------------------------------------
(* Form value 'grid': an object whose keys keep their insertion order *)

GridHas(grid, key) == \E i \in 1..Len(grid) : grid[i].key = key
GridGet(grid, key) == grid[CHOOSE i \in 1..Len(grid) : grid[i].key = key].value
GridSet(grid, key, value) ==
    IF GridHas(grid, key)
    THEN [i \in 1..Len(grid) |-> IF grid[i].key = key THEN [key |-> key, value |-> value] ELSE grid[i]]
    ELSE Append(grid, [key |-> key, value |-> value])

----------------------------------------------------------------------------
(* AddLenses: add-stock form *)

\* value || null
OrNull(v) == IF v = "" THEN NULL ELSE v

\* an entry pushed for every quantity that is a number, 0 and negatives included
LensEntryOf_acceptZero(key, quantity, data) ==
    LET qty == parseInt(trim(quantity))
        parts == split(key)
    IN  IF ~isNaN(qty)
        THEN <<[sph |-> parseFloat(parts[2]), cyl |-> parseFloat(parts[3]), quantity |-> qty,
                lens_type |-> OrNull(data.lensType),
                lens_thickness |-> OrNull(data.lensThickness),
                lens_colour |-> OrNull(data.lensColour),
                lens_diameter |-> OrNull(data.lensDiameter),
                lens_coating |-> OrNull(data.lensCoating),
                restock_reason |-> OrNull(data.restockReason),
                restock_details |-> OrNull(data.restockDetails)]>>
        ELSE <<>>

\* the entry pushed for one [key, quantity] of data.grid, <<>> when the cell is skipped
LensEntryOf(key, quantity, data) ==
    LET qtyString == trim(quantity)
        qty == parseInt(qtyString)
        parts == split(key)
        sph == IF Len(parts) >= 2 THEN parts[2] ELSE <<>>
        cyl == IF Len(parts) >= 3 THEN parts[3] ELSE <<>>
    IN  IF ~isNaN(qty) /\ qty > 0 /\ sph # <<>> /\ cyl # <<>>
        THEN <<[sph |-> parseFloat(sph), cyl |-> parseFloat(cyl), quantity |-> qty,
                lens_type |-> OrNull(data.lensType),
                lens_thickness |-> OrNull(data.lensThickness),
                lens_colour |-> OrNull(data.lensColour),
                lens_diameter |-> OrNull(data.lensDiameter),
                lens_coating |-> OrNull(data.lensCoating),
                restock_reason |-> OrNull(data.restockReason),
                restock_details |-> OrNull(data.restockDetails)]>>
        ELSE <<>>

\* lensEntries built from Object.entries(data.grid)
RECURSIVE BuildLensEntries(_, _)
BuildLensEntries(grid, data) ==
    IF grid = <<>> THEN <<>>
    ELSE LensEntryOf(Head(grid).key, Head(grid).value, data) \o BuildLensEntries(Tail(grid), data)

\* a toast that reports success as soon as one entry succeeded
AddOutcome_ignoreErrors(sc, ec) == IF sc > 0 THEN "Success" ELSE "Error"

\* the toast shown after the loop over lensEntries
AddOutcome(sc, ec) ==
    IF sc > 0 /\ ec = 0 THEN "Success"
    ELSE IF sc > 0 /\ ec > 0 THEN "Partial Success"
    ELSE "Error"

\* the pending quantity written over the existing one
newQuantity_overwrite(existing, entry) == entry.quantity

newQuantity(existing, entry) == existing.quantity + entry.quantity

\* the patch of the update of an existing lens (updated_at is not modelled)
UpdatePatch(existing, entry) ==
    [quantity |-> newQuantity(existing, entry),
     lens_type |-> entry.lens_type, lens_thickness |-> entry.lens_thickness,
     lens_colour |-> entry.lens_colour, lens_diameter |-> entry.lens_diameter,
     lens_coating |-> entry.lens_coating,
     restock_reason |-> entry.restock_reason, restock_details |-> entry.restock_details]

\* the row of the insert of a new lens
InsertRow(entry) == Row(entry.sph, entry.cyl, entry.quantity, entry)

\* the lookup of an entry: the rows with its sph and cyl, at most one expected
Lookup(st, entry) == maybeSingle(st, RowsAt(st, entry.sph, entry.cyl))

\* onChange of a grid cell
handleGridCellChange(s, key, value) ==
    /\ s \in live
    /\ edits < MaxEdits
    /\ edits' = edits + 1
    /\ addGrid' = [addGrid EXCEPT ![s] = GridSet(@, key, value)]
    /\ UNCHANGED <<store, live, pagesVars, stockFilters, failures, addSubmits, outSubmits, addMeta, bulk, addRunVars, bulkOps, applied, outVars>>

\* onChange of the product and restock selects
AddLenses_select(s, m) ==
    /\ s \in live
    /\ edits < MaxEdits
    /\ m # addMeta[s]
    /\ edits' = edits + 1
    /\ addMeta' = [addMeta EXCEPT ![s] = m]
    /\ UNCHANGED <<store, live, pagesVars, stockFilters, failures, addSubmits, outSubmits, addGrid, bulk, addRunVars, bulkOps, applied, outVars>>

\* button 'Reset Grid'
AddLenses_resetGrid(s) ==
    /\ s \in live
    /\ edits < MaxEdits
    /\ addGrid[s] # <<>> \/ addMeta[s] # EmptyMeta \/ bulk[s] # EmptyBulk
    /\ edits' = edits + 1
    /\ addGrid' = [addGrid EXCEPT ![s] = <<>>]
    /\ addMeta' = [addMeta EXCEPT ![s] = EmptyMeta]
    /\ bulk' = [bulk EXCEPT ![s] = EmptyBulk]
    /\ UNCHANGED <<store, live, pagesVars, stockFilters, failures, addSubmits, outSubmits, addRunVars, bulkOps, applied, outVars>>

\* a per-cell quantity that forgets to double a pair
quantityPerCell_noDouble(entry) == parseInt(entry.quantity)

\* entry.quantityUnit === 'pair' ? qty * 2 : qty
quantityPerCell(entry) ==
    LET qty == parseInt(entry.quantity)
    IN  IF entry.quantityUnit = "pair" THEN (IF isNaN(qty) THEN NaN ELSE qty * 2) ELSE qty

\* a range test that takes the two ends in either order
InBulkRange_anyOrder(str, start, end) ==
    LET v == parseFloat(str)
        a == parseFloat(start)
        b == IF end # <<>> THEN parseFloat(end) ELSE a
    IN  (JsGe(v, a) /\ JsLe(v, b)) \/ (JsGe(v, b) /\ JsLe(v, a))

\* s >= start && s <= end, the end defaulting to the start when it is ''
InBulkRange(str, start, end) ==
    LET v == parseFloat(str)
        lo == parseFloat(start)
        hi == IF end # <<>> THEN parseFloat(end) ELSE lo
    IN  JsGe(v, lo) /\ JsLe(v, hi)

\* the pairs <<sph, cyl>> of the two forEach loops that pass the test, in loop order
RECURSIVE Pairs(_, _)
Pairs(sphs, cyls) ==
    IF sphs = <<>> THEN <<>>
    ELSE [j \in 1..Len(cyls) |-> <<Head(sphs), cyls[j]>>] \o Pairs(Tail(sphs), cyls)

BulkCells(entry) ==
    Pairs(SelectSeq(sphSteps, LAMBDA sph : InBulkRange(sph, entry.startSph, entry.endSph)),
          SelectSeq(cylSteps, LAMBDA cyl : InBulkRange(cyl, entry.startCyl, entry.endCyl)))

RECURSIVE FillCells(_, _, _)
FillCells(grid, cells, value) ==
    IF cells = <<>> THEN grid
    ELSE FillCells(GridSet(grid, CellKey(Head(cells)[1], Head(cells)[2]), value),
                   Tail(cells), value)

\* updatedGrid of applyBulk
applyBulkGrid(grid, entry) ==
    FillCells(grid, BulkCells(entry), NumToString(quantityPerCell(entry)))

\* onChange of the fields of the bulk entry
AddLenses_bulkChange(s, entry) ==
    /\ s \in live
    /\ entry # bulk[s]
    /\ bulk' = [bulk EXCEPT ![s] = entry]
    /\ UNCHANGED <<store, live, pagesVars, stockFilters, failures, addSubmits, outSubmits, edits, addGrid, addMeta,
                   addRunVars, bulkOps, applied, outVars>>

\* button 'Apply to Grid'
applyBulk(s) ==
    /\ s \in live
    /\ bulkOps < MaxBulkOps
    /\ bulkOps' = bulkOps + 1
    /\ applied' = [applied EXCEPT ![s] = bulk[s]]
    /\ addGrid' = [addGrid EXCEPT ![s] = applyBulkGrid(@, bulk[s])]
    /\ UNCHANGED <<store, live, pagesVars, stockFilters, failures, addSubmits, outSubmits, edits, addMeta, bulk,
                   addRunVars, outVars>>

\* an end of onSubmit without its finally: isSubmitting stays true
AddFinish_noFinally(s, sc, ec) ==
    /\ addToast' = [addToast EXCEPT ![s] = AddOutcome(sc, ec)]
    /\ UNCHANGED <<addFormVars, addIsSubmitting, addIdx>>
    /\ addPc' = [addPc EXCEPT ![s] = "idle"]

\* the end of onSubmit once every entry is counted: toast, reset on success, finally
AddFinish(s, sc, ec) ==
    /\ addToast' = [addToast EXCEPT ![s] = AddOutcome(sc, ec)]
    /\ IF AddOutcome(sc, ec) = "Success"
       THEN /\ addGrid' = [addGrid EXCEPT ![s] = <<>>]
            /\ addMeta' = [addMeta EXCEPT ![s] = EmptyMeta]
            /\ bulk' = [bulk EXCEPT ![s] = EmptyBulk]
       ELSE UNCHANGED addFormVars
    /\ addIsSubmitting' = [addIsSubmitting EXCEPT ![s] = FALSE]
    /\ addPc' = [addPc EXCEPT ![s] = "idle"]
    /\ UNCHANGED addIdx

\* an entry's error that ends the batch
AddAdvance_abort(s, sc, ec) ==
    /\ successCount' = [successCount EXCEPT ![s] = sc]
    /\ errorCount' = [errorCount EXCEPT ![s] = ec]
    /\ existingLens' = [existingLens EXCEPT ![s] = NoLens]
    /\ IF addIdx[s] < Len(lensEntries[s]) /\ ec = errorCount[s]
       THEN /\ addIdx' = [addIdx EXCEPT ![s] = @ + 1]
            /\ addPc' = [addPc EXCEPT ![s] = "lookup"]
            /\ UNCHANGED <<addFormVars, addIsSubmitting, addToast>>
       ELSE AddFinish(s, sc, ec)

\* after entry addIdx[s] is counted: the next entry's lookup, or the end
AddAdvance(s, sc, ec) ==
    /\ successCount' = [successCount EXCEPT ![s] = sc]
    /\ errorCount' = [errorCount EXCEPT ![s] = ec]
    /\ existingLens' = [existingLens EXCEPT ![s] = NoLens]
    /\ IF addIdx[s] < Len(lensEntries[s])
       THEN /\ addIdx' = [addIdx EXCEPT ![s] = @ + 1]
            /\ addPc' = [addPc EXCEPT ![s] = "lookup"]
            /\ UNCHANGED <<addFormVars, addIsSubmitting, addToast>>
       ELSE AddFinish(s, sc, ec)

\* a submit button that is never disabled
submitDisabled_never(s) == FALSE

\* disabled={isSubmitting} of the submit button
submitDisabled(s) == addIsSubmitting[s]

\* onSubmit up to its first await
AddLenses_onSubmit(s) ==
    /\ s \in live
    /\ ~submitDisabled(s)
    /\ addSubmits + outSubmits < MaxSubmits
    /\ addSubmits' = addSubmits + 1
    /\ LET entries == BuildLensEntries(addGrid[s], addMeta[s])
       IN  /\ lensEntries' = [lensEntries EXCEPT ![s] = entries]
           /\ addCalls' = [addCalls EXCEPT ![s] = <<>>]
           /\ successCount' = [successCount EXCEPT ![s] = 0]
           /\ errorCount' = [errorCount EXCEPT ![s] = 0]
           /\ existingLens' = [existingLens EXCEPT ![s] = NoLens]
           /\ IF entries = <<>>
              THEN /\ addToast' = [addToast EXCEPT ![s] = "No Data"]
                   /\ addIsSubmitting' = [addIsSubmitting EXCEPT ![s] = FALSE]
                   /\ addPc' = [addPc EXCEPT ![s] = "idle"]
                   /\ addIdx' = [addIdx EXCEPT ![s] = 0]
              ELSE /\ addToast' = [addToast EXCEPT ![s] = "none"]
                   /\ addIsSubmitting' = [addIsSubmitting EXCEPT ![s] = TRUE]
                   /\ addPc' = [addPc EXCEPT ![s] = "lookup"]
                   /\ addIdx' = [addIdx EXCEPT ![s] = 1]
    /\ UNCHANGED <<store, live, pagesVars, stockFilters, failures, outSubmits, edits, addFormVars, bulkOps, applied, outVars>>

\* the awaited select of the current entry answers
AddLenses_lookup(s) ==
    /\ addPc[s] = "lookup"
    /\ LET entry == lensEntries[s][addIdx[s]]
           rows == Cardinality(RowsAt(store, entry.sph, entry.cyl))
       IN  \E fail \in BOOLEAN :
             LET res == IF fail THEN [error |-> "network", data |-> NoLens] ELSE Lookup(store, entry)
             IN  /\ fail => failures < MaxFailures
                 /\ failures' = IF fail THEN failures + 1 ELSE failures
                 /\ addCalls' = [addCalls EXCEPT ![s] =
                        Append(@, [entry |-> addIdx[s], op |-> "select", error |-> res.error,
                                   rows |-> rows])]
                 /\ IF res.error # NULL
                    THEN AddAdvance(s, successCount[s], errorCount[s] + 1)
                    ELSE /\ existingLens' = [existingLens EXCEPT ![s] = res.data]
                         /\ addPc' = [addPc EXCEPT ![s] = "write"]
                         /\ UNCHANGED <<addFormVars, addIsSubmitting, addIdx, successCount,
                                        errorCount, addToast>>
    /\ UNCHANGED <<store, live, pagesVars, stockFilters, addSubmits, outSubmits, edits, lensEntries, bulkOps, applied, outVars>>

\* the awaited update or insert of the current entry answers
AddLenses_write(s) ==
    /\ addPc[s] = "write"
    /\ LET entry == lensEntries[s][addIdx[s]]
           found == existingLens[s] # NoLens
       IN  \E fail \in BOOLEAN :
             /\ fail => failures < MaxFailures
             /\ failures' = IF fail THEN failures + 1 ELSE failures
             /\ addCalls' = [addCalls EXCEPT ![s] =
                    Append(@, [entry |-> addIdx[s], op |-> IF found THEN "update" ELSE "insert",
                               error |-> IF fail THEN "network" ELSE NULL,
                               rows |-> Cardinality(RowsAt(store, entry.sph, entry.cyl))])]
             /\ IF fail
                THEN /\ UNCHANGED store
                     /\ AddAdvance(s, successCount[s], errorCount[s] + 1)
                ELSE /\ store' = IF found
                                 THEN StoreUpdate(store, existingLens[s].id,
                                                  UpdatePatch(existingLens[s], entry))
                                 ELSE StoreInsert(store, InsertRow(entry))
                     /\ AddAdvance(s, successCount[s] + 1, errorCount[s])
    /\ UNCHANGED <<live, pagesVars, stockFilters, addSubmits, outSubmits, edits, lensEntries, bulkOps, applied, outVars>>

----------------------------------------------------------------------------
(* LensOut: remove-stock form *)

NoFilters ==
    [filterLensType |-> "", filterLensThickness |-> "", filterLensColour |-> "",
     filterLensCoating |-> ""]

\* the filter selections a user makes on the remove-stock form
FilterChoices ==
    {NoFilters,
     [NoFilters EXCEPT !.filterLensCoating = "UC"],
     [NoFilters EXCEPT !.filterLensType = "CR39"]}

\* what a user enters in the quick-select quantity field
QuickQuantities == {<<"1">>, <<"4">>}

\* the predicate of lenses.filter(...)
PassesFilters(lens, f) ==
    /\ f.filterLensType = "" \/ lens.lens_type = f.filterLensType
    /\ f.filterLensThickness = "" \/ lens.lens_thickness = f.filterLensThickness
    /\ f.filterLensColour = "" \/ lens.lens_colour = f.filterLensColour
    /\ f.filterLensCoating = "" \/ lens.lens_coating = f.filterLensCoating

filteredLenses(ls, f) == SelectSeq(ls, LAMBDA lens : PassesFilters(lens, f))

LensKey(lens) == CellKey(toFixed2(lens.sph), toFixed2(lens.cyl))

\* the lenses of a cell whatever the filters
gridData_unfiltered(ls, f, key) == SelectSeq(ls, LAMBDA lens : LensKey(lens) = key)

\* gridData[key] || [] : the filtered lenses of a cell, in the order of the working set
gridData(ls, f, key) == SelectSeq(filteredLenses(ls, f), LAMBDA lens : LensKey(lens) = key)

\* a total that counts the records of the bucket
getTotalQuantity_count(ls) == Len(ls)

\* lenses.reduce((sum, lens) => sum + lens.quantity, 0)
RECURSIVE getTotalQuantity(_)
getTotalQuantity(ls) ==
    IF ls = <<>> THEN 0 ELSE Head(ls).quantity + getTotalQuantity(Tail(ls))

\* parseInt(quantity?.toString() || '0') of a number of the grid
RemovalQty(quantity) == parseInt(NumToString(quantity))

\* the first loop of onSubmit without its comparison with the total available
RemovalDecision_noTotalCheck(key, quantity, ls, f) ==
    IF ~JsGt(parseInt(NumToString(quantity)), 0) THEN "skip"
    ELSE IF Len(gridData(ls, f, key)) = 0 THEN "No Stock Available"
    ELSE "accept"

\* a first loop that lets a quantity of 0 through
RemovalDecision_acceptZero(key, quantity, ls, f) ==
    IF ~JsGe(parseInt(NumToString(quantity)), 0) THEN "skip"
    ELSE IF Len(gridData(ls, f, key)) = 0 THEN "No Stock Available"
    ELSE IF parseInt(NumToString(quantity)) > getTotalQuantity(gridData(ls, f, key))
         THEN "Insufficient Stock"
    ELSE "accept"

\* what the first loop of onSubmit does with one [key, quantity] of data.grid
RemovalDecision(key, quantity, ls, f) ==
    LET qty == RemovalQty(quantity)
        cellLenses == gridData(ls, f, key)
    IN  IF ~JsGt(qty, 0) THEN "skip"
        ELSE IF Len(cellLenses) = 0 THEN "No Stock Available"
        ELSE IF qty > getTotalQuantity(cellLenses) THEN "Insufficient Stock"
        ELSE "accept"

RemovalEntryOf(key, quantity, ls, f) ==
    LET parts == split(key)
    IN  [sph |-> parseFloat(parts[2]), cyl |-> parseFloat(parts[3]),
         quantityToRemove |-> RemovalQty(quantity),
         cellLenses |-> gridData(ls, f, key)]

RECURSIVE BuildRemovalEntries(_, _, _)
BuildRemovalEntries(grid, ls, f) ==
    IF grid = <<>> THEN <<>>
    ELSE (IF RemovalDecision(Head(grid).key, Head(grid).value, ls, f) = "accept"
          THEN <<RemovalEntryOf(Head(grid).key, Head(grid).value, ls, f)>>
          ELSE <<>>)
         \o BuildRemovalEntries(Tail(grid), ls, f)

\* the toasts of the first loop of onSubmit
RECURSIVE RejectionToasts(_, _, _)
RejectionToasts(grid, ls, f) ==
    IF grid = <<>> THEN <<>>
    ELSE (IF RemovalDecision(Head(grid).key, Head(grid).value, ls, f)
                \in {"No Stock Available", "Insufficient Stock"}
          THEN <<[title |-> RemovalDecision(Head(grid).key, Head(grid).value, ls, f),
                  key |-> Head(grid).key]>>
          ELSE <<>>)
         \o RejectionToasts(Tail(grid), ls, f)

\* insertion of a lens in a list sorted by ascending quantity, after its equals
RECURSIVE InsertSorted(_, _)
InsertSorted(sorted, lens) ==
    IF sorted = <<>> THEN <<lens>>
    ELSE IF lens.quantity < Head(sorted).quantity THEN <<lens>> \o sorted
    ELSE <<Head(sorted)>> \o InsertSorted(Tail(sorted), lens)

\* a sort that leaves the bucket in the order of the working set
sortedLenses_unsorted(cellLenses) == cellLenses

\* [...cellLenses].sort((a, b) => a.quantity - b.quantity), a stable sort
RECURSIVE sortedLenses(_)
sortedLenses(cellLenses) ==
    IF cellLenses = <<>> THEN <<>>
    ELSE InsertSorted(sortedLenses(SubSeq(cellLenses, 1, Len(cellLenses) - 1)),
                      cellLenses[Len(cellLenses)])

Min(a, b) == IF a <= b THEN a ELSE b

\* the whole remainder taken from one lens, whatever it holds
toRemoveFromThisLens_noMin(remaining, quantity) == remaining

toRemoveFromThisLens(remaining, quantity) == Min(remaining, quantity)

\* rows of the table ordered by sph then cyl, each with its id
SphCylLe(a, b) == a.sph < b.sph \/ (a.sph = b.sph /\ a.cyl <= b.cyl)
WithId(st, id) ==
    [f \in DOMAIN st[id] \cup {"id"} |-> IF f = "id" THEN id ELSE st[id][f]]
\* the orders in which rows ids of the table may be returned: a row comes before
\* every row with a greater (sph, cyl), rows with the same (sph, cyl) in any order
RECURSIVE Orderings(_, _)
Orderings(st, ids) ==
    IF ids = {} THEN {<<>>}
    ELSE UNION {{<<WithId(st, id)>> \o rest : rest \in Orderings(st, ids \ {id})} :
                   id \in {i \in ids : \A j \in ids : SphCylLe(st[i], st[j])}}
FetchResults(st) == Orderings(st, 1..Len(st))

\* queryFn of query ['lenses'] answers: the working set becomes the table's rows
LensOut_queryFn ==
    /\ refetchPending
    /\ \E ls \in FetchResults(store) : lenses' = ls
    /\ refetchPending' = FALSE
    /\ UNCHANGED <<store, live, pagesVars, stockFilters, failures, addSubmits, outSubmits, edits, addVars, outFormVars, outRunVars>>

\* onChange of a grid cell: field.onChange(parseInt(e.target.value) || 0);
\* the input of a cell whose displayed total is 0 is disabled
LensOut_cellChange(key, value) ==
    /\ edits < MaxEdits
    /\ getTotalQuantity(gridData(lenses, filters, key)) # 0
    /\ edits' = edits + 1
    /\ outGrid' = GridSet(outGrid, key, value)
    /\ UNCHANGED <<store, live, pagesVars, stockFilters, failures, addSubmits, outSubmits, addVars, lenses, refetchPending,
                   filters, outRunVars>>

\* button 'Add to Grid' of the quick select, with its three fields filled in
handleQuickSelect(sph, cyl, quantity) ==
    /\ edits < MaxEdits
    /\ sph # <<>> /\ cyl # <<>> /\ quantity # <<>>
    /\ edits' = edits + 1
    /\ LET key == CellKey(toFixed2(parseFloat(sph)), toFixed2(parseFloat(cyl)))
           currentValue == IF GridHas(outGrid, key) /\ GridGet(outGrid, key) # 0
                           THEN GridGet(outGrid, key) ELSE 0
           newValue == IF isNaN(parseInt(quantity)) \/ isNaN(currentValue) THEN NaN
                       ELSE currentValue + parseInt(quantity)
       IN  outGrid' = GridSet(outGrid, key, newValue)
    /\ UNCHANGED <<store, live, pagesVars, stockFilters, failures, addSubmits, outSubmits, addVars, lenses, refetchPending,
                   filters, outRunVars>>

\* onChange of the filter selects
LensOut_filter(f) ==
    /\ edits < MaxEdits
    /\ f # filters
    /\ edits' = edits + 1
    /\ filters' = f
    /\ UNCHANGED <<store, live, pagesVars, stockFilters, failures, addSubmits, outSubmits, addVars, lenses, refetchPending,
                   outGrid, outRunVars>>

\* button 'Reset Grid'
LensOut_resetGrid ==
    /\ edits < MaxEdits
    /\ outGrid # <<>> \/ filters # NoFilters
    /\ edits' = edits + 1
    /\ outGrid' = <<>>
    /\ filters' = NoFilters
    /\ UNCHANGED <<store, live, pagesVars, stockFilters, failures, addSubmits, outSubmits, addVars, lenses, refetchPending, outRunVars>>

LastTitle(toasts) == IF toasts = <<>> THEN "none" ELSE toasts[Len(toasts)].title

\* onSubmit up to its first await
LensOut_onSubmit ==
    /\ ~outIsSubmitting
    /\ addSubmits + outSubmits < MaxSubmits
    /\ outSubmits' = outSubmits + 1
    /\ LET entries == BuildRemovalEntries(outGrid, lenses, filters)
           toasts == RejectionToasts(outGrid, lenses, filters)
       IN  /\ removalEntries' = entries
           /\ outCalls' = <<>>
           /\ lastRun' = [entries |-> removalEntries, calls |-> outCalls,
                          title |-> LastTitle(outToasts), table |-> store]
           /\ IF entries = <<>>
              THEN /\ outToasts' = Append(toasts, [title |-> "No Data", key |-> <<>>])
                   /\ outIsSubmitting' = FALSE
                   /\ outPc' = "idle"
                   /\ entryIdx' = 0
                   /\ lensIdx' = 0
                   /\ remainingToRemove' = 0
              ELSE /\ outToasts' = toasts
                   /\ outIsSubmitting' = TRUE
                   /\ outPc' = "update"
                   /\ entryIdx' = 1
                   /\ lensIdx' = 1
                   /\ remainingToRemove' = entries[1].quantityToRemove
    /\ UNCHANGED <<store, live, pagesVars, stockFilters, failures, addSubmits, edits, addVars, lenses, refetchPending, outFormVars>>

\* an update error that is counted and followed by the next entry
OnUpdateError_continue ==
    IF entryIdx < Len(removalEntries)
    THEN /\ entryIdx' = entryIdx + 1
         /\ lensIdx' = 1
         /\ remainingToRemove' = removalEntries[entryIdx + 1].quantityToRemove
         /\ UNCHANGED <<outToasts, outIsSubmitting, outPc, outFormVars, refetchPending>>
    ELSE /\ outToasts' = Append(outToasts, [title |-> "Error", key |-> <<>>])
         /\ outIsSubmitting' = FALSE
         /\ outPc' = "idle"
         /\ UNCHANGED <<entryIdx, lensIdx, remainingToRemove, outFormVars, refetchPending>>

\* if (updateError) throw updateError: the catch of onSubmit, then its finally
OnUpdateError ==
    /\ outToasts' = Append(outToasts, [title |-> "Error", key |-> <<>>])
    /\ outIsSubmitting' = FALSE
    /\ outPc' = "idle"
    /\ UNCHANGED <<entryIdx, lensIdx, remainingToRemove, outFormVars, refetchPending>>

\* a new quantity taken off what the table holds now
LensOut_newQuantity_fromStore(lens, take) == store[lens.id].quantity - take

\* const newQuantity = lens.quantity - toRemoveFromThisLens, lens a record of
\* the working set
LensOut_newQuantity(lens, take) == lens.quantity - take

\* the awaited update of the current lens answers
LensOut_update ==
    /\ outPc = "update"
    /\ LET entry == removalEntries[entryIdx]
           sorted == sortedLenses(entry.cellLenses)
           lens == sorted[lensIdx]
           take == toRemoveFromThisLens(remainingToRemove, lens.quantity)
           newQty == LensOut_newQuantity(lens, take)
       IN  \E fail \in BOOLEAN :
             /\ fail => failures < MaxFailures
             /\ failures' = IF fail THEN failures + 1 ELSE failures
             /\ outCalls' = Append(outCalls,
                    [entry |-> entryIdx, op |-> "update", id |-> lens.id, quantity |-> newQty,
                     error |-> IF fail THEN "network" ELSE NULL])
             /\ IF fail
                THEN /\ UNCHANGED store
                     /\ OnUpdateError
                ELSE /\ store' = StoreUpdate(store, lens.id, [quantity |-> newQty])
                     /\ IF lensIdx < Len(sorted) /\ remainingToRemove - take > 0
                        THEN /\ lensIdx' = lensIdx + 1
                             /\ remainingToRemove' = remainingToRemove - take
                             /\ UNCHANGED <<entryIdx, outToasts, outIsSubmitting, outPc,
                                            outFormVars, refetchPending>>
                        ELSE IF entryIdx < Len(removalEntries)
                        THEN /\ entryIdx' = entryIdx + 1
                             /\ lensIdx' = 1
                             /\ remainingToRemove' = removalEntries[entryIdx + 1].quantityToRemove
                             /\ UNCHANGED <<outToasts, outIsSubmitting, outPc, outFormVars,
                                            refetchPending>>
                        ELSE \* toast, reset, refetch(), finally
                             /\ remainingToRemove' = remainingToRemove - take
                             /\ outToasts' = Append(outToasts, [title |-> "Success", key |-> <<>>])
                             /\ outGrid' = <<>>
                             /\ filters' = NoFilters
                             /\ refetchPending' = TRUE
                             /\ outIsSubmitting' = FALSE
                             /\ outPc' = "idle"
                             /\ UNCHANGED <<entryIdx, lensIdx>>
    /\ UNCHANGED <<live, pagesVars, stockFilters, addSubmits, outSubmits, edits, addVars, lenses, removalEntries,
                   lastRun>>

----------------------------------------------------------------------------
(* LensStock: read-only stock grid, over the same query ['lenses'] *)

StockFilterFields == {"lensType", "lensThickness", "lensColour", "lensDiameter", "lensCoating"}

\* the initial state of 'filters', and what clearFilters sets
StockFilterDefaults ==
    [lensType |-> "all", lensThickness |-> "all", lensColour |-> "all",
     lensDiameter |-> "all", lensCoating |-> "all"]

\* the column a filter field is compared with
StockColumn(field) ==
    CASE field = "lensType" -> "lens_type"
      [] field = "lensThickness" -> "lens_thickness"
      [] field = "lensColour" -> "lens_colour"
      [] field = "lensDiameter" -> "lens_diameter"
      [] field = "lensCoating" -> "lens_coating"

\* filterOptions: the values of a column over the working set, null and '' left out
filterOptions(ls, field) ==
    {ls[i][StockColumn(field)] : i \in 1..Len(ls)} \ {NULL, ""}

\* a predicate that has no test of the diameter
LensStock_passes_noDiameter(lens, f) ==
    /\ ~(f.lensType # "all" /\ lens.lens_type # f.lensType)
    /\ ~(f.lensThickness # "all" /\ lens.lens_thickness # f.lensThickness)
    /\ ~(f.lensColour # "all" /\ lens.lens_colour # f.lensColour)
    /\ ~(f.lensCoating # "all" /\ lens.lens_coating # f.lensCoating)

\* the predicate of lenses.filter(...)
LensStock_passes(lens, f) ==
    /\ ~(f.lensType # "all" /\ lens.lens_type # f.lensType)
    /\ ~(f.lensThickness # "all" /\ lens.lens_thickness # f.lensThickness)
    /\ ~(f.lensColour # "all" /\ lens.lens_colour # f.lensColour)
    /\ ~(f.lensDiameter # "all" /\ lens.lens_diameter # f.lensDiameter)
    /\ ~(f.lensCoating # "all" /\ lens.lens_coating # f.lensCoating)

LensStock_filteredLenses(ls, f) == SelectSeq(ls, LAMBDA lens : LensStock_passes(lens, f))

\* gridData[key] || []
LensStock_gridData(ls, f, key) ==
    SelectSeq(LensStock_filteredLenses(ls, f), LAMBDA lens : LensKey(lens) = key)

\* thresholds that leave 5 and 20 to the next class
bgColor_strict(totalQuantity) ==
    IF totalQuantity = 0 THEN "bg-red-50"
    ELSE IF totalQuantity < 5 THEN "bg-yellow-50"
    ELSE IF totalQuantity < 20 THEN "bg-blue-50"
    ELSE "bg-green-50"

\* the background class of a cell of the table
bgColor(totalQuantity) ==
    IF totalQuantity = 0 THEN "bg-red-50"
    ELSE IF totalQuantity <= 5 THEN "bg-yellow-50"
    ELSE IF totalQuantity <= 20 THEN "bg-blue-50"
    ELSE "bg-green-50"

\* the legend of the table: what each background class stands for
Legend(class) ==
    CASE class = "bg-red-50" -> "Out of Stock"
      [] class = "bg-yellow-50" -> "Low Stock"
      [] class = "bg-blue-50" -> "Medium Stock"
      [] class = "bg-green-50" -> "High Stock"

\* the text of a cell of the table: {totalQuantity > 0 ? totalQuantity : ''}
cellText(totalQuantity) == IF totalQuantity > 0 THEN NumToString(totalQuantity) ELSE <<>>

hasActiveFilters(f) == \E field \in StockFilterFields : f[field] # "all"

\* onValueChange of a filter select: the options are 'all' and the values in the working set
LensStock_setFilters(field, value) ==
    /\ value \in filterOptions(lenses, field) \cup {"all"}
    /\ value # stockFilters[field]
    /\ stockFilters' = [stockFilters EXCEPT ![field] = value]
    /\ UNCHANGED <<store, live, pagesVars, failures, addSubmits, outSubmits, edits, addVars, outVars>>

\* button 'Clear Filters', shown while a filter is active
clearFilters ==
    /\ hasActiveFilters(stockFilters)
    /\ stockFilters' = StockFilterDefaults
    /\ UNCHANGED <<store, live, pagesVars, failures, addSubmits, outSubmits, edits, addVars, outVars>>

\* button 'Refresh'
LensStock_refetch ==
    /\ ~refetchPending
    /\ refetchPending' = TRUE
    /\ UNCHANGED <<store, live, pagesVars, stockFilters, failures, addSubmits, outSubmits, edits, addVars,
                   lenses, outFormVars, outRunVars>>

----------------------------------------------------------------------------
(* Appointments: the list of appointments and its edit dialog *)
(* A date is the string of an <input type="date">, 'YYYY-MM-DD' or ''; a    *)
(* time is the string of an <input type="time"> or of the table, 'HH:MM',   *)
(* 'HH:MM:SS' or ''; an instant is a number of minutes since the epoch.     *)

MaxSaves == 1         \* submits of the edit form of an appointment

\* the browsers: New York in winter, UTC, Harare
TimeZones == {-300, 0, 120}

JsLt(a, b) == a # NaN /\ b # NaN /\ a < b

Pad2(n) == IF n < 10 THEN <<"0">> \o NatToString(n) ELSE NatToString(n)
IsoDate(y, m, d) == NatToString(y) \o <<"-">> \o Pad2(m) \o <<"-">> \o Pad2(d)
HHMM(h, m) == Pad2(h) \o <<":">> \o Pad2(m)

\* the dates a user picks: a Saturday, a Sunday, a Monday, and none
ApptDates == {<<>>, IsoDate(2024, 6, 8), IsoDate(2024, 6, 9), IsoDate(2024, 6, 10)}

\* the times a user picks, and none
ApptTimes == {<<>>, HHMM(7, 59), HHMM(8, 0), HHMM(14, 0), HHMM(16, 59), HHMM(17, 0)}

\* the rows of table 'appointments' when the page is opened
InitAppointments ==
    <<[appointment_date |-> IsoDate(2024, 6, 7), appointment_time |-> HHMM(9, 30) \o <<":", "0", "0">>],
      [appointment_date |-> IsoDate(2024, 6, 8), appointment_time |-> HHMM(10, 0) \o <<":", "0", "0">>]>>

AllDigits(s) == s # <<>> /\ \A i \in 1..Len(s) : IsDigit(s[i])

\* days from 1970-01-01 to the day d of month m of year y (proleptic Gregorian)
DaysFromCivil(y, m, d) ==
    LET yy == IF m <= 2 THEN y - 1 ELSE y
        era == yy \div 400
        yoe == yy - era * 400
        mp == IF m > 2 THEN m - 3 ELSE m + 9
        doy == (153 * mp + 2) \div 5 + d - 1
        doe == yoe * 365 + yoe \div 4 - yoe \div 100 + doy
    IN  era * 146097 + doe - 719468

\* new Date(s) of a date-only string: midnight UTC of that day; Invalid Date
\* (a NaN time value) for ''
NewDate(s) ==
    IF /\ Len(s) = 10 /\ s[5] = "-" /\ s[8] = "-"
       /\ AllDigits(SubSeq(s, 1, 4)) /\ AllDigits(SubSeq(s, 6, 7)) /\ AllDigits(SubSeq(s, 9, 10))
    THEN 1440 * DaysFromCivil(DigitsValue(SubSeq(s, 1, 4)), DigitsValue(SubSeq(s, 6, 7)),
                              DigitsValue(SubSeq(s, 9, 10)))
    ELSE NaN

\* Date.prototype.getDay(): the day of the week of an instant in local time,
\* 0 for Sunday; 1970-01-01 was a Thursday
getDay(t) == IF isNaN(t) THEN NaN ELSE (((t + tz) \div 1440) + 4) % 7

\* String.prototype.split(':')
RECURSIVE SplitColon(_, _)
SplitColon(s, cur) ==
    IF s = <<>> THEN <<cur>>
    ELSE IF Head(s) = ":" THEN <<cur>> \o SplitColon(Tail(s), <<>>)
    ELSE SplitColon(Tail(s), Append(cur, Head(s)))

\* Number(s) of a string: 0 for '', the value of a string of digits, else NaN
Number(s) == IF s = <<>> THEN 0 ELSE IF AllDigits(s) THEN DigitsValue(s) ELSE NaN

\* const [hours, minutes] = time.split(':').map(Number); hours * 60 + minutes
timeInMinutes(time) ==
    LET parts == SplitColon(time, <<>>)
        hours == Number(parts[1])
        minutes == IF Len(parts) >= 2 THEN Number(parts[2]) ELSE NaN
    IN  IF isNaN(hours) \/ isNaN(minutes) THEN NaN ELSE hours * 60 + minutes

\* the checks of mutationFn before its store call: "ok" or the message of the
\* Error thrown
Validate(updates) ==
    LET dayOfWeek == getDay(NewDate(updates.appointment_date))
        t == timeInMinutes(updates.appointment_time)
        maxTime == IF dayOfWeek = 6 THEN 14 * 60 ELSE 17 * 60
    IN  IF dayOfWeek = 0 THEN "We are closed on Sundays"
        ELSE IF JsLt(t, 8 * 60) \/ JsGe(t, maxTime)
             THEN "Please select a time between 8:00 AM and closing time"
        ELSE "ok"

\* getTimeRestrictions(date): min, max and disabled of the time input
getTimeRestrictions(date) ==
    IF date = <<>> THEN [min |-> HHMM(8, 0), max |-> HHMM(17, 0), disabled |-> FALSE]
    ELSE IF getDay(NewDate(date)) = 0 THEN [min |-> <<>>, max |-> <<>>, disabled |-> TRUE]
    ELSE IF getDay(NewDate(date)) = 6
         THEN [min |-> HHMM(8, 0), max |-> HHMM(14, 0), disabled |-> FALSE]
    ELSE [min |-> HHMM(8, 0), max |-> HHMM(17, 0), disabled |-> FALSE]

\* the constraint validation the browser makes before it fires onSubmit: both
\* inputs are required, the time input has min and max; a disabled input is
\* not validated
EditFormValid(form) ==
    LET r == getTimeRestrictions(form.appointment_date)
        t == timeInMinutes(form.appointment_time)
    IN  /\ form.appointment_date # <<>>
        /\ r.disabled \/ (/\ form.appointment_time # <<>>
                          /\ JsGe(t, timeInMinutes(r.min))
                          /\ JsLe(t, timeInMinutes(r.max)))

NoCall == [id |-> 0, updates |-> [appointment_date |-> <<>>, appointment_time |-> <<>>]]
NoToast == [title |-> "none", description |-> "none"]
EmptyEditForm == [appointment_date |-> <<>>, appointment_time |-> <<>>]

\* the rows of the table as a select returns them
ApptRows(table) ==
    {[id |-> id, appointment_date |-> table[id].appointment_date,
      appointment_time |-> table[id].appointment_time] : id \in 1..Len(table)}

\* queryFn of query ['appointments'] answers
Appointments_queryFn ==
    /\ apptRefetch
    /\ appointments' = ApptRows(apptTable)
    /\ apptRefetch' = FALSE
    /\ UNCHANGED <<lensVars, frameVars, tz, apptTable, editingAppointment, editForm, isPending, apptCall,
                   apptToast, apptSaves>>

\* the pencil button of a row
handleEditClick(appointment) ==
    /\ editingAppointment = 0
    /\ appointment \in appointments
    /\ editingAppointment' = appointment.id
    /\ editForm' = [appointment_date |-> appointment.appointment_date,
                    appointment_time |-> appointment.appointment_time]
    /\ UNCHANGED <<lensVars, frameVars, tz, apptTable, appointments, apptRefetch, isPending, apptCall,
                   apptToast, apptSaves>>

\* onChange of the date input
Appointments_dateChange(date) ==
    /\ editingAppointment # 0
    /\ date # editForm.appointment_date
    /\ editForm' = [editForm EXCEPT !.appointment_date = date]
    /\ UNCHANGED <<lensVars, frameVars, tz, apptTable, appointments, apptRefetch, editingAppointment,
                   isPending, apptCall, apptToast, apptSaves>>

\* onChange of the time input, which is disabled on a Sunday
Appointments_timeChange(time) ==
    /\ editingAppointment # 0
    /\ ~getTimeRestrictions(editForm.appointment_date).disabled
    /\ time # editForm.appointment_time
    /\ editForm' = [editForm EXCEPT !.appointment_time = time]
    /\ UNCHANGED <<lensVars, frameVars, tz, apptTable, appointments, apptRefetch, editingAppointment,
                   isPending, apptCall, apptToast, apptSaves>>

\* button 'Cancel' and onOpenChange(false) of the dialog
Appointments_cancel ==
    /\ editingAppointment # 0
    /\ editingAppointment' = 0
    /\ UNCHANGED <<lensVars, frameVars, tz, apptTable, appointments, apptRefetch, editForm, isPending,
                   apptCall, apptToast, apptSaves>>

\* handleEditSubmit and mutationFn up to its await: the checks, then either the
\* throw that onError turns into a toast or the update sent to the store
handleEditSubmit ==
    /\ editingAppointment # 0
    /\ ~isPending
    /\ EditFormValid(editForm)
    /\ apptSaves < MaxSaves
    /\ apptSaves' = apptSaves + 1
    /\ LET updates == editForm
           verdict == Validate(updates)
       IN  IF verdict # "ok"
           THEN /\ apptToast' = [title |-> "Error", description |-> verdict]
                /\ UNCHANGED <<isPending, apptCall>>
           ELSE /\ isPending' = TRUE
                /\ apptCall' = [id |-> editingAppointment, updates |-> updates]
                /\ UNCHANGED apptToast
    /\ UNCHANGED <<lensVars, frameVars, tz, apptTable, appointments, apptRefetch, editingAppointment,
                   editForm>>

\* the awaited update answers: onSuccess or onError
Appointments_updateAnswer ==
    /\ isPending
    /\ isPending' = FALSE
    /\ \E fail \in BOOLEAN :
          IF fail
          THEN /\ apptToast' = [title |-> "Error", description |-> "Failed to update appointment"]
               /\ UNCHANGED <<apptTable, apptRefetch, editingAppointment>>
          ELSE /\ apptTable' = [apptTable EXCEPT ![apptCall.id] = apptCall.updates]
               /\ apptRefetch' = TRUE
               /\ apptToast' = [title |-> "Success",
                                description |-> "Appointment updated successfully"]
               /\ editingAppointment' = 0
    /\ UNCHANGED <<lensVars, frameVars, tz, appointments, editForm, apptCall, apptSaves>>

\* the page is not open
AppointmentsClosed ==
    /\ tz = 0
    /\ apptTable = <<>>
    /\ appointments = {}
    /\ apptRefetch = FALSE
    /\ editingAppointment = 0
    /\ editForm = EmptyEditForm
    /\ isPending = FALSE
    /\ apptCall = NoCall
    /\ apptToast = NoToast
    /\ apptSaves = 0

----------------------------------------------------------------------------
(* Frames: the add-frame form (AddFrame) and the list of frames (FrameList) *)
(* A width in millimetres is an integer number of tenths of a millimetre.   *)

MaxFrameOps == 2      \* submits, saves and deletes on the frames pages

\* the permissions a role may hold
PermissionSets == {{}, {"create"}, {"create", "update"}, {"create", "update", "delete"}}

\* hasPermission(permission) of useUserRole()
hasPermission(permission) == permission \in permissions

\* what a user types into the lens-width input, in tenths; NaN for an empty input
FrameWidths == {NaN, 0, 415, 420, 480, 485, 490, 525, 580, 585, 590}

\* what a user types into the lens-width input of the edit dialog, in tenths
EditWidths == {0, 510}

\* a check that skips hasPermission('create')
AddFrame_denied_never == FALSE

\* if (!hasPermission('create')) of onSubmit
AddFrame_denied == ~hasPermission("create")

calculateSizeCategory(width) ==
    IF JsLt(width, 420) THEN "Extra-small"
    ELSE IF JsGe(width, 420) /\ JsLe(width, 480) THEN "Small"
    ELSE IF JsGe(width, 490) /\ JsLe(width, 520) THEN "Medium"
    ELSE IF JsGe(width, 530) /\ JsLe(width, 580) THEN "Large"
    ELSE "Extra-large"

\* the rows of table 'frames' when the pages are opened
InitFrames == <<[id |-> 1, lens_width |-> 500, size |-> "Medium"]>>

NoInsert == [lens_width |-> 0, size |-> "none"]
\* null in column lens_width and in editFormData
NullWidth == -1

EmptyFormData == [lens_width |-> NullWidth]

\* the useUserRole() hook answers with another set of permissions
useUserRole_change(perms) ==
    /\ perms # permissions
    /\ permissions' = perms
    /\ UNCHANGED <<lensVars, apptVars, frameTable, nextId, frames, framesFetch, lensWidth, size,
                   frameIsSubmitting, frameInsert, editFrame, editFormData, isEditDialogOpen,
                   frameCalls, frameToast, frameOps>>

\* onChange of the lens-width input, then the effect that sets 'size'
AddFrame_lensWidthChange(width) ==
    /\ width # lensWidth
    /\ lensWidth' = width
    /\ size' = calculateSizeCategory(width)
    /\ UNCHANGED <<lensVars, apptVars, permissions, frameTable, nextId, frames, framesFetch,
                   frameIsSubmitting, frameInsert, editFrame, editFormData, isEditDialogOpen,
                   frameCalls, frameToast, frameOps>>

\* onSubmit up to its await; it is called when the browser finds the width a
\* whole number (step 1) and the resolver finds it a number
AddFrame_onSubmit ==
    /\ ~frameIsSubmitting
    /\ ~isNaN(lensWidth) /\ lensWidth % 10 = 0
    /\ frameOps < MaxFrameOps
    /\ frameOps' = frameOps + 1
    /\ IF AddFrame_denied
       THEN /\ frameToast' = [title |-> "Permission Denied",
                              description |-> "You don't have permission to create frames."]
            /\ UNCHANGED <<frameIsSubmitting, frameInsert>>
       ELSE /\ frameIsSubmitting' = TRUE
            /\ frameInsert' = [lens_width |-> lensWidth, size |-> size]
            /\ UNCHANGED frameToast
    /\ UNCHANGED <<lensVars, apptVars, permissions, frameTable, nextId, frames, framesFetch,
                   lensWidth, size, editFrame, editFormData, isEditDialogOpen, frameCalls>>

\* the awaited insert answers: toast, reset() on success, finally
AddFrame_insertAnswer ==
    /\ frameIsSubmitting
    /\ frameIsSubmitting' = FALSE
    /\ \E fail \in BOOLEAN :
          IF fail
          THEN /\ frameToast' = [title |-> "Error",
                                 description |-> "Failed to add frame to inventory. Please try again."]
               /\ UNCHANGED <<frameTable, nextId, lensWidth, size>>
          ELSE /\ frameTable' = Append(frameTable, [id |-> nextId,
                                                    lens_width |-> frameInsert.lens_width,
                                                    size |-> frameInsert.size])
               /\ nextId' = nextId + 1
               /\ frameToast' = [title |-> "Success",
                                 description |-> "Frame added to inventory successfully!"]
               /\ lensWidth' = 0
               /\ size' = IF lensWidth = 0 THEN "" ELSE calculateSizeCategory(0)
    /\ UNCHANGED <<lensVars, apptVars, permissions, frames, framesFetch, frameInsert, editFrame,
                   editFormData, isEditDialogOpen, frameCalls, frameOps>>

\* fetchFrames answers
fetchFrames ==
    /\ framesFetch
    /\ framesFetch' = FALSE
    /\ \E fail \in BOOLEAN :
          IF fail
          THEN /\ frameToast' = [title |-> "Error",
                                 description |-> "Failed to fetch frames from inventory."]
               /\ UNCHANGED frames
          ELSE /\ frames' = frameTable
               /\ UNCHANGED frameToast
    /\ UNCHANGED <<lensVars, apptVars, permissions, frameTable, nextId, lensWidth, size,
                   frameIsSubmitting, frameInsert, editFrame, editFormData, isEditDialogOpen,
                   frameCalls, frameOps>>

\* the pencil button of a row, rendered under hasPermission('update')
handleEdit(frame) ==
    /\ hasPermission("update")
    /\ ~isEditDialogOpen
    /\ editFrame' = frame.id
    /\ editFormData' = [lens_width |-> IF frame.lens_width = NullWidth THEN 0 ELSE frame.lens_width]
    /\ isEditDialogOpen' = TRUE
    /\ UNCHANGED <<lensVars, apptVars, permissions, frameTable, nextId, frames, framesFetch,
                   lensWidth, size, frameIsSubmitting, frameInsert, frameCalls, frameToast,
                   frameOps>>

\* onChange of the lens-width input of the edit dialog
FrameList_widthChange(width) ==
    /\ hasPermission("update")
    /\ isEditDialogOpen
    /\ editFormData.lens_width # width
    /\ editFormData' = [editFormData EXCEPT !.lens_width = width]
    /\ UNCHANGED <<lensVars, apptVars, permissions, frameTable, nextId, frames, framesFetch,
                   lensWidth, size, frameIsSubmitting, frameInsert, editFrame, isEditDialogOpen,
                   frameCalls, frameToast, frameOps>>

\* button 'Cancel' and onOpenChange(false) of the edit dialog
FrameList_closeEdit ==
    /\ hasPermission("update")
    /\ isEditDialogOpen
    /\ isEditDialogOpen' = FALSE
    /\ UNCHANGED <<lensVars, apptVars, permissions, frameTable, nextId, frames, framesFetch,
                   lensWidth, size, frameIsSubmitting, frameInsert, editFrame, editFormData,
                   frameCalls, frameToast, frameOps>>

\* handleSaveEdit up to its await; its button is rendered under hasPermission('update')
handleSaveEdit ==
    /\ hasPermission("update")
    /\ isEditDialogOpen
    /\ frameOps < MaxFrameOps
    /\ frameOps' = frameOps + 1
    /\ IF ~hasPermission("update")
       THEN /\ frameToast' = [title |-> "Permission Denied",
                              description |-> "You don't have permission to update frames."]
            /\ UNCHANGED frameCalls
       ELSE IF editFrame = 0
       THEN UNCHANGED <<frameToast, frameCalls>>
       ELSE /\ frameCalls' = frameCalls \cup
                   {[op |-> "update", id |-> editFrame,
                     lens_width |-> IF editFormData.lens_width \in {0, NaN, NullWidth}
                                    THEN NullWidth ELSE editFormData.lens_width]}
            /\ UNCHANGED frameToast
    /\ UNCHANGED <<lensVars, apptVars, permissions, frameTable, nextId, frames, framesFetch,
                   lensWidth, size, frameIsSubmitting, frameInsert, editFrame, editFormData,
                   isEditDialogOpen>>

\* handleDelete up to its await; its button is rendered under hasPermission('delete')
handleDelete(frameId) ==
    /\ hasPermission("delete")
    /\ \E i \in 1..Len(frames) : frames[i].id = frameId
    /\ frameOps < MaxFrameOps
    /\ frameOps' = frameOps + 1
    /\ IF ~hasPermission("delete")
       THEN /\ frameToast' = [title |-> "Permission Denied",
                              description |-> "You don't have permission to delete frames."]
            /\ UNCHANGED frameCalls
       ELSE /\ frameCalls' = frameCalls \cup {[op |-> "delete", id |-> frameId, lens_width |-> NullWidth]}
            /\ UNCHANGED frameToast
    /\ UNCHANGED <<lensVars, apptVars, permissions, frameTable, nextId, frames, framesFetch,
                   lensWidth, size, frameIsSubmitting, frameInsert, editFrame, editFormData,
                   isEditDialogOpen>>

\* an awaited update or delete of FrameList answers
FrameList_answer(call) ==
    /\ call \in frameCalls
    /\ frameCalls' = frameCalls \ {call}
    /\ \E fail \in BOOLEAN :
          IF fail
          THEN /\ frameToast' = [title |-> "Error",
                                 description |-> IF call.op = "update"
                                                 THEN "Failed to update frame."
                                                 ELSE "Failed to delete frame."]
               /\ UNCHANGED <<frameTable, framesFetch, editFrame, editFormData, isEditDialogOpen>>
          ELSE IF call.op = "update"
          THEN /\ frameTable' = [i \in 1..Len(frameTable) |->
                                   IF frameTable[i].id = call.id
                                   THEN [frameTable[i] EXCEPT !.lens_width = call.lens_width]
                                   ELSE frameTable[i]]
               /\ frameToast' = [title |-> "Success", description |-> "Frame updated successfully."]
               /\ isEditDialogOpen' = FALSE
               /\ editFrame' = 0
               /\ editFormData' = EmptyFormData
               /\ framesFetch' = TRUE
          ELSE /\ frameTable' = SelectSeq(frameTable, LAMBDA row : row.id # call.id)
               /\ frameToast' = [title |-> "Success", description |-> "Frame deleted successfully."]
               /\ framesFetch' = TRUE
               /\ UNCHANGED <<editFrame, editFormData, isEditDialogOpen>>
    /\ UNCHANGED <<lensVars, apptVars, permissions, nextId, frames, lensWidth, size,
                   frameIsSubmitting, frameInsert, frameOps>>

\* the pages are not open
FramesClosed ==
    /\ permissions = {}
    /\ frameTable = <<>>
    /\ nextId = 1
    /\ frames = <<>>
    /\ framesFetch = FALSE
    /\ lensWidth = 0
    /\ size = ""
    /\ frameIsSubmitting = FALSE
    /\ frameInsert = NoInsert
    /\ editFrame = 0
    /\ editFormData = EmptyFormData
    /\ isEditDialogOpen = FALSE
    /\ frameCalls = {}
    /\ frameToast = NoToast
    /\ frameOps = 0

PagesClosed == AppointmentsClosed /\ FramesClosed

----------------------------------------------------------------------------
(* The two forms over one store *)

InitAdd ==
    /\ addGrid = [s \in Sessions |-> <<>>]
    /\ addMeta = [s \in Sessions |-> EmptyMeta]
    /\ addIsSubmitting = [s \in Sessions |-> FALSE]
    /\ addPc = [s \in Sessions |-> "idle"]
    /\ lensEntries = [s \in Sessions |-> <<>>]
    /\ addIdx = [s \in Sessions |-> 0]
    /\ existingLens = [s \in Sessions |-> NoLens]
    /\ successCount = [s \in Sessions |-> 0]
    /\ errorCount = [s \in Sessions |-> 0]
    /\ addToast = [s \in Sessions |-> "none"]
    /\ addCalls = [s \in Sessions |-> <<>>]
    /\ bulk = [s \in Sessions |-> EmptyBulk]
    /\ bulkOps = 0
    /\ applied = [s \in Sessions |-> EmptyBulk]

\* no submit yet
NoRun == [entries |-> <<>>, calls |-> <<>>, title |-> "none", table |-> <<>>]

InitOut ==
    /\ lenses = <<>>
    /\ refetchPending = TRUE
    /\ outGrid = <<>>
    /\ filters = NoFilters
    /\ outIsSubmitting = FALSE
    /\ outPc = "idle"
    /\ removalEntries = <<>>
    /\ entryIdx = 0
    /\ lensIdx = 0
    /\ remainingToRemove = 0
    /\ outToasts = <<>>
    /\ outCalls = <<>>
    /\ lastRun = NoRun

Init ==
    /\ store \in InitStores
    /\ live = {1}
    /\ stockFilters = StockFilterDefaults
    /\ PagesClosed
    /\ failures = 0
    /\ addSubmits = 0
    /\ outSubmits = 0
    /\ edits = 0
    /\ InitAdd
    /\ InitOut

Next ==
    \/ \E s \in live, c \in CellChoices, v \in AddCellInputs : handleGridCellChange(s, KeyOf(c), v)
    \/ \E s \in live, m \in MetaChoices : AddLenses_select(s, m)
    \/ \E s \in live : AddLenses_resetGrid(s)
    \/ \E s \in live : AddLenses_onSubmit(s)
    \/ \E s \in live : AddLenses_lookup(s)
    \/ \E s \in live : AddLenses_write(s)
    \/ \E c \in CellChoices, v \in OutCellInputs : LensOut_cellChange(KeyOf(c), v)
    \/ \E c \in CellChoices, q \in QuickQuantities :
          handleQuickSelect(toFixed2(c[1]), toFixed2(c[2]), q)
    \/ \E f \in FilterChoices : LensOut_filter(f)
    \/ LensOut_resetGrid
    \/ LensOut_queryFn
    \/ LensOut_onSubmit
    \/ LensOut_update

Spec == Init /\ [][Next]_vars

\* the two forms when every awaited store call is answered, with a result or
\* with an error
SpecLive ==
    /\ Init
    /\ [][Next]_vars
    /\ WF_vars(\E s \in Sessions : AddLenses_lookup(s))
    /\ WF_vars(\E s \in Sessions : AddLenses_write(s))
    /\ WF_vars(LensOut_update)

\* the remove-stock form of one session beside the add-stock form of another
InitOther ==
    /\ store \in InitStores
    /\ live = {2}
    /\ stockFilters = StockFilterDefaults
    /\ PagesClosed
    /\ failures = 0
    /\ addSubmits = 0
    /\ outSubmits = 0
    /\ edits = 0
    /\ InitAdd
    /\ InitOut

SpecOther == InitOther /\ [][Next]_vars

\* the add-stock form alone, one session, over a table that starts empty
InitAddOnly ==
    /\ store = <<>>
    /\ live = {1}
    /\ stockFilters = StockFilterDefaults
    /\ PagesClosed
    /\ failures = 0
    /\ addSubmits = 0
    /\ outSubmits = 0
    /\ edits = 0
    /\ InitAdd
    /\ InitOut

NextAdd ==
    \/ \E s \in live, c \in CellChoices, v \in AddCellInputs \cup MoreAddCellInputs :
          handleGridCellChange(s, KeyOf(c), v)
    \/ \E s \in live, m \in MetaChoices : AddLenses_select(s, m)
    \/ \E s \in live : AddLenses_resetGrid(s)
    \/ \E s \in live : AddLenses_onSubmit(s)
    \/ \E s \in live : AddLenses_lookup(s)
    \/ \E s \in live : AddLenses_write(s)

SpecAdd == InitAddOnly /\ [][NextAdd]_vars

\* the add-stock forms of two sessions open at once on one table
InitSessions ==
    /\ store \in InitStores
    /\ live = Sessions
    /\ stockFilters = StockFilterDefaults
    /\ PagesClosed
    /\ failures = 0
    /\ addSubmits = 0
    /\ outSubmits = 0
    /\ edits = 0
    /\ InitAdd
    /\ InitOut

NextSessions ==
    \/ \E s \in live, c \in CellChoices, v \in AddCellInputs : handleGridCellChange(s, KeyOf(c), v)
    \/ \E s \in live, m \in MetaChoices : AddLenses_select(s, m)
    \/ \E s \in live : AddLenses_resetGrid(s)
    \/ \E s \in live : AddLenses_onSubmit(s)
    \/ \E s \in live : AddLenses_lookup(s)
    \/ \E s \in live : AddLenses_write(s)

SpecSessions == InitSessions /\ [][NextSessions]_vars

\* the add-stock forms of two sessions open at once on a table that starts empty
InitSessionsEmpty ==
    /\ store = <<>>
    /\ live = Sessions
    /\ stockFilters = StockFilterDefaults
    /\ PagesClosed
    /\ failures = 0
    /\ addSubmits = 0
    /\ outSubmits = 0
    /\ edits = 0
    /\ InitAdd
    /\ InitOut

SpecSessionsEmpty == InitSessionsEmpty /\ [][NextSessions]_vars

\* the lens forms are not open
LensClosed ==
    /\ store = <<>>
    /\ live = {1}
    /\ stockFilters = StockFilterDefaults
    /\ failures = 0
    /\ addSubmits = 0
    /\ outSubmits = 0
    /\ edits = 0
    /\ InitAdd
    /\ InitOut

\* the appointments page, loaded, in the browser of some time zone
InitAppointmentsPage ==
    /\ LensClosed
    /\ tz \in TimeZones
    /\ apptTable = InitAppointments
    /\ appointments = ApptRows(InitAppointments)
    /\ apptRefetch = FALSE
    /\ editingAppointment = 0
    /\ editForm = EmptyEditForm
    /\ isPending = FALSE
    /\ apptCall = NoCall
    /\ apptToast = NoToast
    /\ apptSaves = 0
    /\ FramesClosed

NextAppointments ==
    \/ Appointments_queryFn
    \/ \E appointment \in appointments : handleEditClick(appointment)
    \/ \E date \in ApptDates : Appointments_dateChange(date)
    \/ \E time \in ApptTimes : Appointments_timeChange(time)
    \/ Appointments_cancel
    \/ handleEditSubmit
    \/ Appointments_updateAnswer

SpecAppointments == InitAppointmentsPage /\ [][NextAppointments]_vars

\* the add-frame form and the list of frames, loaded, for a user of some role
InitFramesPages ==
    /\ LensClosed
    /\ AppointmentsClosed
    /\ permissions \in PermissionSets
    /\ frameTable = InitFrames
    /\ nextId = Len(InitFrames) + 1
    /\ frames = InitFrames
    /\ framesFetch = FALSE
    /\ lensWidth = 0
    /\ size = calculateSizeCategory(0)
    /\ frameIsSubmitting = FALSE
    /\ frameInsert = NoInsert
    /\ editFrame = 0
    /\ editFormData = EmptyFormData
    /\ isEditDialogOpen = FALSE
    /\ frameCalls = {}
    /\ frameToast = NoToast
    /\ frameOps = 0

NextFrames ==
    \/ \E perms \in PermissionSets : useUserRole_change(perms)
    \/ \E width \in FrameWidths : AddFrame_lensWidthChange(width)
    \/ AddFrame_onSubmit
    \/ AddFrame_insertAnswer
    \/ fetchFrames
    \/ \E i \in 1..Len(frames) : handleEdit(frames[i])
    \/ \E width \in EditWidths : FrameList_widthChange(width)
    \/ FrameList_closeEdit
    \/ handleSaveEdit
    \/ \E i \in 1..Len(frames) : handleDelete(frames[i].id)
    \/ \E call \in frameCalls : FrameList_answer(call)

SpecFrames == InitFramesPages /\ [][NextFrames]_vars

\* the bulk helper of the add-stock form, over a grid already typed in
InitBulk ==
    /\ store = <<>>
    /\ live = {1}
    /\ stockFilters = StockFilterDefaults
    /\ PagesClosed
    /\ failures = 0
    /\ addSubmits = 0
    /\ outSubmits = 0
    /\ edits = 0
    /\ \E g \in BulkInitGrids : addGrid = [s \in Sessions |-> IF s = 1 THEN g ELSE <<>>]
    /\ addMeta = [s \in Sessions |-> EmptyMeta]
    /\ bulk = [s \in Sessions |-> EmptyBulk]
    /\ bulkOps = 0
    /\ applied = [s \in Sessions |-> EmptyBulk]
    /\ addIsSubmitting = [s \in Sessions |-> FALSE]
    /\ addPc = [s \in Sessions |-> "idle"]
    /\ lensEntries = [s \in Sessions |-> <<>>]
    /\ addIdx = [s \in Sessions |-> 0]
    /\ existingLens = [s \in Sessions |-> NoLens]
    /\ successCount = [s \in Sessions |-> 0]
    /\ errorCount = [s \in Sessions |-> 0]
    /\ addToast = [s \in Sessions |-> "none"]
    /\ addCalls = [s \in Sessions |-> <<>>]
    /\ InitOut

NextBulk ==
    \/ \E s \in live, entry \in BulkChoices : AddLenses_bulkChange(s, entry)
    \/ \E s \in live : applyBulk(s)

SpecBulk == InitBulk /\ [][NextBulk]_vars

\* one cell of the grid, any cell of the two axes, filled by the bulk helper and
\* submitted over a table that starts empty
InitCodec ==
    /\ store = <<>>
    /\ live = {1}
    /\ stockFilters = StockFilterDefaults
    /\ PagesClosed
    /\ failures = 0
    /\ addSubmits = 0
    /\ outSubmits = 0
    /\ edits = 0
    /\ addGrid = [s \in Sessions |-> <<>>]
    /\ addMeta = [s \in Sessions |-> EmptyMeta]
    /\ \E i \in 1..NumSphSteps, j \in 1..NumCylSteps :
          bulk = [s \in Sessions |->
                    IF s = 1
                    THEN BulkEntry(sphSteps[i], <<>>, cylSteps[j], <<>>, <<"1">>, "single")
                    ELSE EmptyBulk]
    /\ bulkOps = 0
    /\ applied = [s \in Sessions |-> EmptyBulk]
    /\ addIsSubmitting = [s \in Sessions |-> FALSE]
    /\ addPc = [s \in Sessions |-> "idle"]
    /\ lensEntries = [s \in Sessions |-> <<>>]
    /\ addIdx = [s \in Sessions |-> 0]
    /\ existingLens = [s \in Sessions |-> NoLens]
    /\ successCount = [s \in Sessions |-> 0]
    /\ errorCount = [s \in Sessions |-> 0]
    /\ addToast = [s \in Sessions |-> "none"]
    /\ addCalls = [s \in Sessions |-> <<>>]
    /\ InitOut

NextCodec ==
    \/ \E s \in live : applyBulk(s)
    \/ \E s \in live : AddLenses_onSubmit(s)
    \/ \E s \in live : AddLenses_lookup(s)
    \/ \E s \in live : AddLenses_write(s)

SpecCodec == InitCodec /\ [][NextCodec]_vars

MaxStockQuantity == 22   \* largest quantity of the one-record tables below

\* tables the stock grid may be opened on: those of InitStores, a table with
\* several products, several records in a cell and a record of quantity 0, and
\* the tables of one record
StockStores ==
    InitStores
    \cup {<<Row(-600, 400, 6, [NoAttrs EXCEPT !.lens_type = "CR39"]),
            Row(-200, 100, 2, [NoAttrs EXCEPT !.lens_type = "CR39", !.lens_coating = "UC"]),
            Row(-200, 100, 5, [NoAttrs EXCEPT !.lens_type = "CR39", !.lens_coating = "HMC"]),
            Row(0, 0, 0, [NoAttrs EXCEPT !.lens_thickness = "1.56"]),
            Row(50, 0, 3, NoAttrs),
            Row(100, 25, 20, [NoAttrs EXCEPT !.lens_diameter = "65"]),
            Row(100, 25, 1, [NoAttrs EXCEPT !.lens_colour = "Clear"])>>}
    \cup {<<Row(150, 50, q, NoAttrs)>> : q \in 0..MaxStockQuantity}

\* the stock grid and the filters of the remove-stock form over a table that
\* does not change
InitStock ==
    /\ store \in StockStores
    /\ live = {1}
    /\ stockFilters = StockFilterDefaults
    /\ PagesClosed
    /\ failures = 0
    /\ addSubmits = 0
    /\ outSubmits = 0
    /\ edits = 0
    /\ InitAdd
    /\ InitOut

NextStock ==
    \/ LensOut_queryFn
    \/ LensStock_refetch
    \/ \E field \in StockFilterFields, value \in {"all", "CR39", "1.56", "Clear", "65", "UC", "HMC"} :
          LensStock_setFilters(field, value)
    \/ clearFilters
    \/ \E f \in FilterChoices : LensOut_filter(f)

SpecStock == InitStock /\ [][NextStock]_vars

----------------------------------------------------------------------------
(* Claims about the add-stock form *)

\* the entries of session s's submit whose update or insert was answered without error
Succeeded(s) ==
    {i \in 1..Len(lensEntries[s]) :
        \E k \in 1..Len(addCalls[s]) :
            /\ addCalls[s][k].entry = i
            /\ addCalls[s][k].op \in {"update", "insert"}
            /\ addCalls[s][k].error = NULL}

\* the entries of session s's submit one of whose store calls was answered with an error
Failed(s) ==
    {i \in 1..Len(lensEntries[s]) :
        \E k \in 1..Len(addCalls[s]) :
            addCalls[s][k].entry = i /\ addCalls[s][k].error # NULL}

\* C2: over a table that starts empty, an add-stock entry that succeeds at a
\* cell with no record inserts exactly one record, with the entry's quantity,
\* and one that succeeds at a cell that has a record inserts nothing and leaves
\* that record with its quantity plus the entry's; no cell ever has two records.
C2_CreateThenAccumulate ==
    [][\A s \in Sessions :
          (addPc[s] = "write" /\ successCount'[s] = successCount[s] + 1) =>
             LET entry == lensEntries[s][addIdx[s]]
                 ids == RowsAt(store, entry.sph, entry.cyl)
             IN  /\ Cardinality(ids) <= 1
                 /\ ids = {} =>
                       /\ Len(store') = Len(store) + 1
                       /\ RowsAt(store', entry.sph, entry.cyl) = {Len(store')}
                       /\ store'[Len(store')].quantity = entry.quantity
                       /\ \A id \in 1..Len(store) : store'[id] = store[id]
                 /\ ids # {} =>
                       /\ Len(store') = Len(store)
                       /\ \A id \in ids :
                             store'[id].quantity = store[id].quantity + entry.quantity
                       /\ \A id \in (1..Len(store)) \ ids : store'[id] = store[id]
      ]_vars

\* 1 lens was added at (-2.00, 1.00), then 2 more with the same (unset)
\* attributes: the table holds one record, of quantity 3
C2_Witness ==
    /\ addSubmits = 2
    /\ addPc[1] = "idle"
    /\ addToast[1] = "Success"
    /\ failures = 0
    /\ Len(store) = 1
    /\ store[1].sph = -200 /\ store[1].cyl = 100
    /\ store[1].quantity = 3
    /\ store[1].lens_type = NULL /\ store[1].lens_coating = NULL

\* C5: in an add-stock submit each entry is counted exactly once, as a success
\* or as a failure, a store error on an entry's lookup, update or insert
\* counts that entry as a failure, and every entry of the batch has been
\* looked up when the submit ends.
C5_AddErrorDoesNotAbort ==
    \A s \in Sessions :
        LET n == Len(lensEntries[s])
            done == IF addPc[s] = "idle" THEN n ELSE addIdx[s] - 1
        IN  /\ Succeeded(s) \cap Failed(s) = {}
            /\ Succeeded(s) \cup Failed(s) = 1..done
            /\ successCount[s] = Cardinality(Succeeded(s))
            /\ errorCount[s] = Cardinality(Failed(s))
            /\ addPc[s] = "idle" =>
                  \A i \in 1..n : \E k \in 1..Len(addCalls[s]) :
                      addCalls[s][k].entry = i /\ addCalls[s][k].op = "select"

\* the first entry of a batch of two failed on a store error, the second was
\* still processed and succeeded
C5_Witness ==
    \E s \in Sessions :
        /\ addPc[s] = "idle"
        /\ Len(lensEntries[s]) = 2
        /\ Failed(s) = {1}
        /\ Succeeded(s) = {2}
        /\ \E k \in 1..Len(addCalls[s]) : addCalls[s][k].error = "network"

\* C7: when an add-stock submit with at least one entry has ended, its toast is
\* 'Success' exactly when every entry succeeded, 'Error' exactly when none did,
\* and 'Partial Success' exactly when some did and some did not.
C7_AddOutcome ==
    \A s \in Sessions :
        (addPc[s] = "idle" /\ lensEntries[s] # <<>>) =>
            LET all == 1..Len(lensEntries[s])
            IN  /\ addToast[s] = "Success" <=> Succeeded(s) = all
                /\ addToast[s] = "Error" <=> Succeeded(s) = {}
                /\ addToast[s] = "Partial Success"
                      <=> (Succeeded(s) # {} /\ Succeeded(s) # all)

\* a batch of two entries ended with one success and one failure
C7_Witness ==
    \E s \in Sessions :
        /\ addPc[s] = "idle"
        /\ Len(lensEntries[s]) = 2
        /\ Cardinality(Succeeded(s)) = 1
        /\ addToast[s] = "Partial Success"

\* the five descriptive attributes of a row equal those of an entry, null matching null
SameProduct(row, entry) ==
    /\ row.lens_type = entry.lens_type
    /\ row.lens_thickness = entry.lens_thickness
    /\ row.lens_colour = entry.lens_colour
    /\ row.lens_diameter = entry.lens_diameter
    /\ row.lens_coating = entry.lens_coating

\* C8 as stated: a successful add-stock entry changes an existing record only
\* if that record has the entry's five descriptive attributes, and inserts a new
\* record when the cell's records all have other attributes.
C8_FullAttributeMatch ==
    [][\A s \in Sessions :
          (addPc[s] = "write" /\ successCount'[s] = successCount[s] + 1) =>
             LET entry == lensEntries[s][addIdx[s]]
                 ids == RowsAt(store, entry.sph, entry.cyl)
             IN  /\ \A id \in 1..Len(store) :
                       store'[id] # store[id] => SameProduct(store[id], entry)
                 /\ (ids # {} /\ \A id \in ids : ~SameProduct(store[id], entry))
                       => Len(store') = Len(store) + 1
      ]_vars

\* C9 as stated: the lookup of an entry whose cell holds two or more records,
\* answered without a network or backend failure, does not count the entry as
\* failed.
C9_MultiRecordCellAddSucceeds ==
    [][\A s \in Sessions :
          (addPc[s] = "lookup" /\ Len(addCalls'[s]) = Len(addCalls[s]) + 1) =>
             LET call == addCalls'[s][Len(addCalls'[s])]
             IN  (call.rows >= 2 /\ call.error # "network")
                    => errorCount'[s] = errorCount[s]
      ]_vars

----------------------------------------------------------------------------
(* Claims about the remove-stock form *)

\* the quantity the working set held for lens id when entry e was assembled
Had(e, id) ==
    LET bucket == removalEntries[e].cellLenses
    IN  bucket[CHOOSE j \in 1..Len(bucket) : bucket[j].id = id].quantity

EntryKey(entry) == CellKey(toFixed2(entry.sph), toFixed2(entry.cyl))

RECURSIVE SeqSum(_)
SeqSum(q) == IF q = <<>> THEN 0 ELSE Head(q) + SeqSum(Tail(q))

\* C1: in every reachable state, whatever the interleaving of add-stock and
\* remove-stock submits and whichever store call failed, every row of the table
\* has quantity >= 0, and every update a remove-stock submit issued takes from
\* its record no more than the quantity the record had.
C1_QuantityNeverNegative ==
    /\ \A id \in 1..Len(store) : store[id].quantity >= 0
    /\ \A k \in 1..Len(outCalls) :
          /\ outCalls[k].quantity >= 0
          /\ Had(outCalls[k].entry, outCalls[k].id) - outCalls[k].quantity
                <= Had(outCalls[k].entry, outCalls[k].id)

\* a remove-stock submit drained a record to 0, was then cut short by a store
\* error, and an add-stock submit ran as well
C1_Witness ==
    /\ failures >= 1
    /\ addSubmits >= 1
    /\ LastTitle(outToasts) = "Error"
    /\ \E k \in 1..Len(outCalls) :
          /\ outCalls[k].error = NULL
          /\ outCalls[k].quantity = 0
          /\ Had(outCalls[k].entry, outCalls[k].id) > 0
          /\ store[outCalls[k].id].quantity = 0

\* the updates issued for entry e, in the order they were issued
CallsOf(e) == SelectSeq(outCalls, LAMBDA c : c.entry = e)

\* the calls issued for entry e are the greedy smallest-first distribution of
\* its quantityToRemove over its bucket
GreedySmallestFirst(e) ==
    LET calls == CallsOf(e)
        bucket == removalEntries[e].cellLenses
        q == removalEntries[e].quantityToRemove
        dec(k) == Had(e, calls[k].id) - calls[k].quantity
        decs == [k \in 1..Len(calls) |-> dec(k)]
    IN  /\ \A k \in 1..Len(calls) : \E j \in 1..Len(bucket) : bucket[j].id = calls[k].id
        /\ \A k, l \in 1..Len(calls) :
              k < l => /\ calls[k].id # calls[l].id
                       /\ Had(e, calls[k].id) <= Had(e, calls[l].id)
        /\ \A j \in 1..Len(bucket) :
              (\A k \in 1..Len(calls) : calls[k].id # bucket[j].id)
                  => \A k \in 1..Len(calls) : Had(e, calls[k].id) <= bucket[j].quantity
        /\ \A k \in 1..Len(calls) :
              LET remaining == q - SeqSum(SubSeq(decs, 1, k - 1))
              IN  /\ remaining > 0
                  /\ dec(k) = IF remaining <= Had(e, calls[k].id)
                              THEN remaining ELSE Had(e, calls[k].id)
        /\ SeqSum(decs) = q

\* C3: when a remove-stock submit has ended with every update answered without
\* error, the updates it issued for each accepted cell are the greedy
\* smallest-first distribution: the records were taken by ascending quantity, each
\* was decremented by min(remaining, its quantity), the decrements add up to the
\* requested quantity; and the table holds the quantities written (as long as
\* no add-stock submit has run beside it).
C3_GreedySmallestFirst ==
    (outPc = "idle" /\ LastTitle(outToasts) = "Success")
        => /\ \A e \in 1..Len(removalEntries) : GreedySmallestFirst(e)
           /\ (addSubmits = 0 /\ outSubmits = 1)
                 => \A k \in 1..Len(outCalls) :
                       store[outCalls[k].id].quantity = outCalls[k].quantity

\* records of 2 and 5, 4 removed: the record of 2 went to 0, the record of 5 to 3
C3_Witness ==
    /\ outPc = "idle"
    /\ LastTitle(outToasts) = "Success"
    /\ Len(removalEntries) = 1
    /\ removalEntries[1].quantityToRemove = 4
    /\ Len(outCalls) = 2
    /\ Had(1, outCalls[1].id) = 2 /\ store[outCalls[1].id].quantity = 0
    /\ Had(1, outCalls[2].id) = 5 /\ store[outCalls[2].id].quantity = 3

IsRejection(toast) == toast.title \in {"No Stock Available", "Insufficient Stock"}

\* C4: a remove-stock submit rejects every cell of its grid whose requested
\* quantity exceeds the summed quantity of its bucket or whose bucket is empty,
\* accepts every other cell with a positive quantity, and no update it issues
\* targets a record of a rejected cell.
C4_RejectedCellUntouched ==
    [][/\ outSubmits' = outSubmits + 1 =>
            \A i \in 1..Len(outGrid) :
               LET key == outGrid[i].key
                   q == outGrid[i].value
                   ids == {j \in 1..Len(lenses) :
                              PassesFilters(lenses[j], filters) /\ LensKey(lenses[j]) = key}
                   total == SumQuantity(lenses, ids)
                   asked == q # NaN /\ q > 0
                   short == ids = {} \/ q > total
               IN  /\ (asked /\ short) =>
                          /\ \A e \in 1..Len(removalEntries') : EntryKey(removalEntries'[e]) # key
                          /\ \E t \in 1..Len(outToasts') :
                                IsRejection(outToasts'[t]) /\ outToasts'[t].key = key
                   /\ (asked /\ ~short) =>
                          \E e \in 1..Len(removalEntries') :
                             /\ EntryKey(removalEntries'[e]) = key
                             /\ removalEntries'[e].quantityToRemove = q
       /\ \A k \in 1..Len(outCalls'), t \in 1..Len(outToasts') :
             IsRejection(outToasts'[t]) => LensKey(store'[outCalls'[k].id]) # outToasts'[t].key
      ]_vars

\* one cell of the batch was rejected for insufficient stock, another was updated
C4_Witness ==
    \E t \in 1..Len(outToasts), k \in 1..Len(outCalls) :
        /\ outToasts[t].title = "Insufficient Stock"
        /\ outCalls[k].error = NULL
        /\ LensKey(store[outCalls[k].id]) # outToasts[t].key

C16_NoRecordDeleted ==
    [][/\ Len(store') >= Len(store)
       /\ \A id \in 1..Len(store) :
             store'[id].sph = store[id].sph /\ store'[id].cyl = store[id].cyl
       /\ (Len(outCalls') = Len(outCalls) + 1 /\ outCalls'[Len(outCalls')].error = NULL
            /\ outCalls'[Len(outCalls')].quantity = 0) =>
              /\ outCalls'[Len(outCalls')].id \in 1..Len(store')
              /\ store'[outCalls'[Len(outCalls')].id].quantity = 0
      ]_vars

\* a remove-stock submit of 4 at (-2.00, 1.00) took the 2 lenses of the UC record
\* and succeeded: the table still has its three records, the UC record with
\* quantity 0
C16_Witness ==
    /\ outPc = "idle"
    /\ LastTitle(outToasts) = "Success"
    /\ \E k \in 1..Len(outCalls) :
          /\ outCalls[k].quantity = 0
          /\ Had(outCalls[k].entry, outCalls[k].id) = 2
          /\ store[outCalls[k].id].lens_coating = "UC"
          /\ store[outCalls[k].id].quantity = 0
    /\ Len(store) = 3

\* C17 as stated: the step that ends a remove-stock or an add-stock submit in
\* which a store write was answered without error, whatever the outcome of the
\* submit, leaves a fetch of query ['lenses'] started, so that the working set is
\* refreshed from the table the submit has changed.
C17_WorkingSetRefreshed ==
    [][/\ (outPc = "update" /\ outPc' = "idle"
            /\ \E k \in 1..Len(outCalls') : outCalls'[k].error = NULL)
              => refetchPending'
       /\ \A s \in Sessions :
             (addPc[s] # "idle" /\ addPc'[s] = "idle"
              /\ \E k \in 1..Len(addCalls'[s]) :
                    addCalls'[s][k].op \in {"update", "insert"} /\ addCalls'[s][k].error = NULL)
               => refetchPending'
      ]_vars

\* no cell of an add-stock grid holds a positive quantity
NoPositiveCell(grid) ==
    \A i \in 1..Len(grid) : ~JsGt(parseInt(trim(grid[i].value)), 0)

\* every cell of the remove-stock grid holds no positive quantity, or has no
\* record passing the filters, or asks for more than these records hold
NoRemovableCell ==
    \A i \in 1..Len(outGrid) :
        LET q == outGrid[i].value
            ids == {j \in 1..Len(lenses) :
                       PassesFilters(lenses[j], filters) /\ LensKey(lenses[j]) = outGrid[i].key}
        IN  \/ q = NaN
            \/ q <= 0
            \/ ids = {}
            \/ q > SumQuantity(lenses, ids)

\* C18: an add-stock submit over a grid with no positive quantity, and a
\* remove-stock submit over a grid whose cells are all without a positive
\* quantity or rejected, end in the step that starts them: the toast is 'No
\* Data', no store call is issued, the grid and the table are as before and the
\* form is idle, not submitting.
C18_NoActionableCell ==
    [][/\ \A s \in live :
             (addSubmits' = addSubmits + 1 /\ NoPositiveCell(addGrid[s])) =>
                /\ addToast'[s] = "No Data"
                /\ addCalls'[s] = <<>>
                /\ addGrid'[s] = addGrid[s]
                /\ store' = store
                /\ addPc'[s] = "idle" /\ ~addIsSubmitting'[s]
       /\ (outSubmits' = outSubmits + 1 /\ NoRemovableCell) =>
             /\ LastTitle(outToasts') = "No Data"
             /\ outCalls' = <<>>
             /\ outGrid' = outGrid
             /\ store' = store
             /\ outPc' = "idle" /\ ~outIsSubmitting'
      ]_vars

\* an add-stock submit over a grid that holds only an unusable value and a
\* remove-stock submit whose one cell was rejected both ended with 'No Data',
\* the grids as they were
C18_Witness ==
    /\ addSubmits = 1 /\ outSubmits = 1
    /\ addToast[1] = "No Data"
    /\ addGrid[1] # <<>>
    /\ addCalls[1] = <<>>
    /\ Len(outToasts) = 2
    /\ IsRejection(outToasts[1])
    /\ LastTitle(outToasts) = "No Data"
    /\ outGrid # <<>>
    /\ outCalls = <<>>
    /\ store \in InitStores

\* the cells, as (sph, cyl), whose value in an add-stock grid parses to a
\* positive integer
PositiveCells(grid) ==
    {c \in CellChoices :
        GridHas(grid, KeyOf(c)) /\ JsGt(parseInt(trim(GridGet(grid, KeyOf(c)))), 0)}

\* C19: an add-stock submit builds one entry for each cell whose value parses to
\* a positive integer and none for a cell whose value is empty, not a number, 0
\* or negative, and every store call of the submit, lookup, update or insert, is
\* made for one of these entries.
C19_UnusableCellNoStoreCall ==
    [][\A s \in live :
          /\ addSubmits' = addSubmits + 1 =>
                /\ \A c \in CellChoices :
                      (\E e \in 1..Len(lensEntries'[s]) :
                          lensEntries'[s][e].sph = c[1] /\ lensEntries'[s][e].cyl = c[2])
                        <=> c \in PositiveCells(addGrid[s])
                /\ Len(lensEntries'[s]) = Cardinality(PositiveCells(addGrid[s]))
          /\ \A k \in 1..Len(addCalls'[s]) :
                /\ addCalls'[s][k].entry \in 1..Len(lensEntries'[s])
                /\ addCalls'[s][k].op \in {"select", "update", "insert"}
      ]_vars

\* a submit over a grid with -1 in one cell and 2 in another made its two store
\* calls for the one entry of the cell that holds 2
C19_Witness ==
    /\ Len(addGrid[1]) = 2
    /\ \E i \in 1..2 : addGrid[1][i].value = <<"-", "1">>
    /\ \E i \in 1..2 : addGrid[1][i].value = <<"2">>
    /\ Len(lensEntries[1]) = 1
    /\ lensEntries[1][1].quantity = 2
    /\ Len(addCalls[1]) = 2
    /\ addCalls[1][2].entry = 1

\* the calls of a log are ordered by entry, and within an add-stock entry the
\* lookup comes first
InEntryOrder(calls) ==
    \A k, l \in 1..Len(calls) :
        k < l => /\ calls[k].entry <= calls[l].entry
                 /\ calls[k].entry = calls[l].entry => calls[l].op # "select"

C21_SubmitCompletes ==
    /\ \A s \in Sessions :
          (addIsSubmitting[s] \/ addPc[s] # "idle")
              ~> (~addIsSubmitting[s] /\ addPc[s] = "idle")
    /\ (outIsSubmitting \/ outPc # "idle") ~> (~outIsSubmitting /\ outPc = "idle")

\* a remove-stock submit ended on a thrown store error after an update was
\* applied and an add-stock submit ended after its entry was written; both
\* forms are idle, not submitting
C21_Witness ==
    /\ outSubmits = 1 /\ addSubmits = 1
    /\ LastTitle(outToasts) = "Error"
    /\ Len(outCalls) = 2
    /\ ~outIsSubmitting /\ outPc = "idle"
    /\ addToast[1] = "Success"
    /\ Len(addCalls[1]) = 2
    /\ ~addIsSubmitting[1] /\ addPc[1] = "idle"

\* what a single run of the second loop of onSubmit without error leaves in the
\* record id of entry: its quantity in the working set less what the greedy
\* smallest-first distribution takes from it
AfterSingleRun(entry, id) ==
    LET sorted == sortedLenses(entry.cellLenses)
        j == CHOOSE i \in 1..Len(sorted) : sorted[i].id = id
        before == getTotalQuantity(SubSeq(sorted, 1, j - 1))
        remaining == IF entry.quantityToRemove > before
                     THEN entry.quantityToRemove - before ELSE 0
    IN  sorted[j].quantity - Min(remaining, sorted[j].quantity)

InEntry(entry, id) == \E i \in 1..Len(entry.cellLenses) : entry.cellLenses[i].id = id

\* the last remove-stock submit repeated the submit before it, which a store
\* error had cut short after an update was applied; nothing else wrote
IsRetry ==
    /\ addSubmits = 0 /\ outSubmits = 2
    /\ lastRun.title = "Error"
    /\ \E k \in 1..Len(lastRun.calls) : lastRun.calls[k].error = NULL
    /\ lastRun.entries = removalEntries

\* C22: a remove-stock submit cut short by a store error after some updates
\* were applied, submitted again with the same quantities over the same
\* working set and ending in success, leaves the table as one run without
\* error over the table before the first submit would: each record of an
\* accepted cell holds its quantity less its greedy share, every other record
\* is as it was.
C22_RetryIdempotent ==
    (IsRetry /\ outPc = "idle" /\ LastTitle(outToasts) = "Success")
        => \E before \in InitStores :
              /\ Len(before) = Len(store)
              /\ \A e \in 1..Len(removalEntries) :
                 \A i \in 1..Len(removalEntries[e].cellLenses) :
                    LET lens == removalEntries[e].cellLenses[i]
                    IN  before[lens.id].quantity = lens.quantity
              /\ \A id \in 1..Len(store) :
                    store[id] =
                       [before[id] EXCEPT !.quantity =
                          IF \E e \in 1..Len(removalEntries) : InEntry(removalEntries[e], id)
                          THEN AfterSingleRun(
                                  removalEntries[CHOOSE e \in 1..Len(removalEntries) :
                                                    InEntry(removalEntries[e], id)], id)
                          ELSE before[id].quantity]

\* records of 2 and 5, 4 removed: the first run wrote 0 and failed on the
\* second update, the retry wrote 0 again and then 3
C22_Witness ==
    /\ IsRetry /\ outPc = "idle" /\ LastTitle(outToasts) = "Success"
    /\ Len(lastRun.calls) = 2
    /\ lastRun.calls[1].quantity = 0 /\ lastRun.calls[2].error # NULL
    /\ Len(outCalls) = 2
    /\ outCalls[1].id = lastRun.calls[1].id
    /\ store[outCalls[1].id].quantity = 0
    /\ store[outCalls[2].id].quantity = 3

\* the ids of the records of entry
EntryIds(entry) == {entry.cellLenses[i].id : i \in 1..Len(entry.cellLenses)}

\* C26: a remove-stock submit made while filters are active takes as the
\* records of a cell only those of the working set that pass the filters,
\* accepts a cell only if the requested quantity is within their summed
\* quantity, and each of its updates changes one of those records and leaves
\* every other row of the table, the excluded ones among them, as it was.
C26_FiltersFrameRemoval ==
    [][/\ (outSubmits' = outSubmits + 1 /\ filters # NoFilters) =>
            \A e \in 1..Len(removalEntries') :
               LET entry == removalEntries'[e]
                   passing == {j \in 1..Len(lenses) :
                                  /\ PassesFilters(lenses[j], filters)
                                  /\ LensKey(lenses[j]) = EntryKey(entry)}
               IN  /\ EntryIds(entry) = {lenses[j].id : j \in passing}
                   /\ entry.quantityToRemove <= SumQuantity(lenses, passing)
       /\ (outSubmits' = outSubmits /\ Len(outCalls') = Len(outCalls) + 1) =>
            LET call == outCalls'[Len(outCalls')]
            IN  /\ call.id \in EntryIds(removalEntries[call.entry])
                /\ \A id \in 1..Len(store) : id # call.id => store'[id] = store[id]
      ]_vars

\* under the filter on coating UC, 1 was removed from the cell whose records
\* are UC (2) and HMC (5): the entry held the UC record alone, which went to 1,
\* and the HMC record still holds 5
C26_Witness ==
    /\ outPc = "idle" /\ LastTitle(outToasts) = "Success"
    /\ addSubmits = 0 /\ outSubmits = 1
    /\ Len(removalEntries) = 1
    /\ Len(removalEntries[1].cellLenses) = 1
    /\ removalEntries[1].cellLenses[1].lens_coating = "UC"
    /\ Cardinality(RowsAt(store, removalEntries[1].sph, removalEntries[1].cyl)) = 2
    /\ store[removalEntries[1].cellLenses[1].id].quantity = 1
    /\ \E id \in 1..Len(store) : store[id].lens_coating = "HMC" /\ store[id].quantity = 5

----------------------------------------------------------------------------
(* Claims about sessions working at once *)

\* each of the two sessions has submitted once, one entry, for the same cell,
\* and both submits ended in success
BothAddedTo(sph, cyl) ==
    /\ addSubmits = 2 /\ failures = 0
    /\ \A s \in Sessions :
          /\ addPc[s] = "idle" /\ addToast[s] = "Success"
          /\ Len(lensEntries[s]) = 1
          /\ lensEntries[s][1].sph = sph /\ lensEntries[s][1].cyl = cyl

\* C23: two add-stock submits of two sessions add a > 0 and b > 0 to a cell
\* that held one record of quantity n; without store error the record ends
\* with n + a + b, whatever the interleaving.
C23_ConcurrentAddsAccumulate ==
    \A c \in CellChoices, before \in InitStores :
        (/\ BothAddedTo(c[1], c[2])
         /\ Cardinality(RowsAt(before, c[1], c[2])) = 1
         /\ Len(before) = Len(store))
            => LET id == CHOOSE i \in RowsAt(before, c[1], c[2]) : TRUE
               IN  store[id].quantity =
                      before[id].quantity + lensEntries[1][1].quantity
                                          + lensEntries[2][1].quantity

\* the summed quantity of the rows of table st for the cell of entry
CellAggregate(st, entry) == SumQuantity(st, RowsAt(st, entry.sph, entry.cyl))

\* a record of entry held, when the submit started, another quantity in the
\* table than in the working set; the submit being the first of this session,
\* the other session made the change
ChangedSinceFetch(entry) ==
    /\ outSubmits = 1
    /\ \E i \in 1..Len(entry.cellLenses) :
          lastRun.table[entry.cellLenses[i].id].quantity # entry.cellLenses[i].quantity

\* C24: when another session has changed the quantity of a record after the
\* working set was fetched, a remove-stock submit of q for its cell that ends
\* in success leaves the summed quantity of the cell in the table equal to
\* what it was when the submit started, less q.
C24_RemoveFromChangedRecord ==
    [][(outPc = "update" /\ outPc' = "idle" /\ LastTitle(outToasts') = "Success")
          => \A e \in 1..Len(removalEntries) :
                ChangedSinceFetch(removalEntries[e])
                   => CellAggregate(store', removalEntries[e])
                         = CellAggregate(lastRun.table, removalEntries[e])
                              - removalEntries[e].quantityToRemove
      ]_vars

\* C25: over a table that starts empty, whatever the interleaving of the
\* add-stock submits of one or several sessions, as long as no store call
\* returned an error the table holds at most one row for each (sph, cyl).
C25_OneRecordPerCell ==
    failures = 0
        => \A c \in CellChoices : Cardinality(RowsAt(store, c[1], c[2])) <= 1

----------------------------------------------------------------------------
(* Claims about the bulk helper *)

\* the pending value of a cell: <<"unset">> when the grid has no such key
Pending(grid, key) == IF GridHas(grid, key) THEN <<"set", GridGet(grid, key)>> ELSE <<"unset">>

\* C10: 'Apply to Grid' with numeric start values and a numeric quantity n sets
\* the pending value of every axis cell with start_sph <= sph <= end_sph and
\* start_cyl <= cyl <= end_cyl (an unset end being its start) to 2n for unit
\* 'pair' and to n for unit 'single', whatever the cell held, leaves every other
\* cell as it was, and applied again to the resulting grid changes nothing.
C10_BulkRange ==
    [][\A s \in Sessions :
          LET entry == bulk[s]
              startSph == parseFloat(entry.startSph)
              startCyl == parseFloat(entry.startCyl)
              endSph == IF entry.endSph = <<>> THEN startSph ELSE parseFloat(entry.endSph)
              endCyl == IF entry.endCyl = <<>> THEN startCyl ELSE parseFloat(entry.endCyl)
              n == parseInt(entry.quantity)
              value == NumToString(IF entry.quantityUnit = "pair" THEN 2 * n ELSE n)
          IN  (bulkOps' = bulkOps + 1 /\ s \in live
               /\ ~isNaN(startSph) /\ ~isNaN(startCyl) /\ ~isNaN(n)) =>
                 /\ \A i \in 1..NumSphSteps, j \in 1..NumCylSteps :
                       LET sph == (i - 1) * 50 - 600
                           cyl == (j - 1) * 25
                           key == CellKey(toFixed2(sph), toFixed2(cyl))
                       IN  IF startSph <= sph /\ sph <= endSph /\ startCyl <= cyl /\ cyl <= endCyl
                           THEN Pending(addGrid'[s], key) = <<"set", value>>
                           ELSE Pending(addGrid'[s], key) = Pending(addGrid[s], key)
                 /\ applyBulkGrid(addGrid'[s], entry) = addGrid'[s]
      ]_vars

\* the range -2.00..-1.00 by 0.75..1.00 was applied with 3 pairs over a grid that
\* held 1 at (-2.00, 1.00) and 2 at (0.50, 0.00): six cells hold 6, the cell
\* outside the range still holds 2
C10_Witness ==
    /\ bulkOps >= 1
    /\ bulk[1] = BulkEntry(toFixed2(-200), toFixed2(-100), toFixed2(75), toFixed2(100),
                           <<"3">>, "pair")
    /\ Pending(addGrid[1], KeyOf(<<-200, 100>>)) = <<"set", <<"6">>>>
    /\ Pending(addGrid[1], KeyOf(<<-100, 75>>)) = <<"set", <<"6">>>>
    /\ Pending(addGrid[1], KeyOf(<<50, 0>>)) = <<"set", <<"2">>>>
    /\ Len(addGrid[1]) = 7

\* C11: 'Apply to Grid' with a numeric start greater than its end on the SPH
\* axis or on the CYL axis leaves the pending grid exactly as it was, keys and
\* values, and the click completes like any other.
C11_EmptyRange ==
    [][\A s \in Sessions :
          LET entry == bulk[s]
              startSph == parseFloat(entry.startSph)
              startCyl == parseFloat(entry.startCyl)
              endSph == IF entry.endSph = <<>> THEN startSph ELSE parseFloat(entry.endSph)
              endCyl == IF entry.endCyl = <<>> THEN startCyl ELSE parseFloat(entry.endCyl)
          IN  (bulkOps' = bulkOps + 1 /\ s \in live
               /\ (JsGt(startSph, endSph) \/ JsGt(startCyl, endCyl))) =>
                 /\ addGrid'[s] = addGrid[s]
                 /\ applied'[s] = entry
      ]_vars

\* the range 1.00..-1.00 on the SPH axis was applied with 3 pairs over a grid that
\* held 1 at (-2.00, 1.00) and 2 at (0.50, 0.00): the grid holds just that
C11_Witness ==
    /\ bulkOps >= 1
    /\ applied[1] = BulkEntry(toFixed2(100), toFixed2(-100), toFixed2(0), toFixed2(25),
                              <<"3">>, "pair")
    /\ addGrid[1] = <<[key |-> KeyOf(<<-200, 100>>), value |-> <<"1">>],
                      [key |-> KeyOf(<<50, 0>>), value |-> <<"2">>]>>

\* the keys two grids hold
KeysOf(g, h) == {g[i].key : i \in 1..Len(g)} \cup {h[i].key : i \in 1..Len(h)}

\* C27: 'Apply to Grid' with a bulk entry whose quantity is empty or not a
\* number, or whose start SPH or start CYL is unset, leaves every pending value
\* of the grid as it was.
C27_InvalidBulkLeavesGrid ==
    [][\A s \in Sessions :
          LET entry == bulk[s]
          IN  (bulkOps' = bulkOps + 1 /\ s \in live
               /\ (\/ isNaN(parseInt(entry.quantity))
                   \/ entry.startSph = <<>>
                   \/ entry.startCyl = <<>>)) =>
                 \A key \in KeysOf(addGrid[s], addGrid'[s]) :
                    Pending(addGrid'[s], key) = Pending(addGrid[s], key)
      ]_vars

----------------------------------------------------------------------------
(* Claims about the appointments page *)

\* the day of the week of a calendar date, 0 for Sunday
Weekday(date) == ((NewDate(date) \div 1440) + 4) % 7

\* the date is a day the practice is open and the time is within its hours
WithinOpeningHours(date, time) ==
    LET t == timeInMinutes(time)
    IN  /\ ~isNaN(NewDate(date)) /\ ~isNaN(t)
        /\ Weekday(date) # 0
        /\ 8 * 60 <= t
        /\ t < (IF Weekday(date) = 6 THEN 14 * 60 ELSE 17 * 60)

\* C28: a submit of the edit form sends an update to the store only if the
\* date is not a Sunday and the time is from 08:00 to before 17:00 (before
\* 14:00 on a Saturday); any other submit ends with an Error toast, sends
\* nothing, leaves the dialog open and the appointment as it was.
C28_UpdateWithinOpeningHours ==
    [][apptSaves' = apptSaves + 1 =>
          IF isPending'
          THEN WithinOpeningHours(apptCall'.updates.appointment_date,
                                  apptCall'.updates.appointment_time)
          ELSE /\ apptToast'.title = "Error"
               /\ apptCall' = apptCall
               /\ editingAppointment' = editingAppointment
               /\ apptTable' = apptTable
      ]_vars

----------------------------------------------------------------------------
(* Claims about the frames pages *)

\* the operations sent to table 'frames' by a step
SentOps ==
    {c.op : c \in frameCalls' \ frameCalls} \cup
    (IF frameIsSubmitting' /\ ~frameIsSubmitting THEN {"create"} ELSE {})

\* C29: an insert, update or delete of a frame is sent to the store only
\* while the user holds permission 'create', 'update' or 'delete'
\* respectively, and a submit, save or delete that sends nothing leaves the
\* table, the frame list and the state of both forms as they were.
C29_FrameWritesNeedPermission ==
    [][/\ SentOps \subseteq permissions
       /\ (frameOps' = frameOps + 1 /\ SentOps = {}) =>
             UNCHANGED <<frameTable, nextId, frames, framesFetch, lensWidth, size,
                         frameIsSubmitting, frameInsert, editFrame, editFormData,
                         isEditDialogOpen, frameCalls>>
      ]_vars

\* a submit of the add-frame form was denied and nothing was written
C29_Witness ==
    /\ frameOps > 0
    /\ ~hasPermission("create")
    /\ frameToast.title = "Permission Denied"
    /\ lensWidth = 490
    /\ size = "Medium"
    /\ ~frameIsSubmitting
    /\ frameTable = InitFrames

SizeRank(category) ==
    CASE category = "Extra-small" -> 1
      [] category = "Small" -> 2
      [] category = "Medium" -> 3
      [] category = "Large" -> 4
      [] category = "Extra-large" -> 5

SizeCategories == {"Extra-small", "Small", "Medium", "Large", "Extra-large"}

\* C30: the size category is monotone in the lens width: when the width
\* typed into the add-frame form goes from w1 to w2 >= w1, whole or not,
\* the category shown for w2 is not smaller than the one shown for w1 in
\* the order Extra-small < Small < Medium < Large < Extra-large.
C30_SizeCategoryMonotone ==
    [][(/\ ~isNaN(lensWidth) /\ ~isNaN(lensWidth')
        /\ lensWidth <= lensWidth'
        /\ size \in SizeCategories /\ size' \in SizeCategories)
       => SizeRank(size) <= SizeRank(size')]_vars

----------------------------------------------------------------------------
(* Claims about the cell key codec *)

\* C12: for every pair of the 33 SPH values (-6.00 to 10.00 by 0.50) and the 17
\* CYL values (0.00 to 4.00 by 0.25), a submit decodes the key the grid holds
\* for the pair into an entry with exactly that sph and that cyl, one entry for
\* each key of the grid, and no other pair of the axes has the same key.
C12_CodecRoundTrip ==
    [][\A s \in Sessions :
          addSubmits' = addSubmits + 1 =>
             /\ \A i \in 1..NumSphSteps, j \in 1..NumCylSteps :
                   LET sph == (i - 1) * 50 - 600
                       cyl == (j - 1) * 25
                       key == CellKey(sphSteps[i], cylSteps[j])
                   IN  (GridHas(addGrid[s], key) /\ JsGt(parseInt(GridGet(addGrid[s], key)), 0)) =>
                          /\ \E e \in 1..Len(lensEntries'[s]) :
                                lensEntries'[s][e].sph = sph /\ lensEntries'[s][e].cyl = cyl
                          /\ \A i2 \in 1..NumSphSteps, j2 \in 1..NumCylSteps :
                                <<i2, j2>> # <<i, j>> => CellKey(sphSteps[i2], cylSteps[j2]) # key
             /\ Len(lensEntries'[s]) <= Len(addGrid[s])
      ]_vars

\* the bulk helper filled the cell (-5.50, 3.75), the submit decoded its key
\* and a record with sph -5.50 and cyl 3.75 was inserted
C12_Witness ==
    /\ applied[1].startSph = toFixed2(-550)
    /\ applied[1].startCyl = toFixed2(375)
    /\ Len(lensEntries[1]) = 1
    /\ lensEntries[1][1].sph = -550 /\ lensEntries[1][1].cyl = 375
    /\ Len(store) = 1
    /\ store[1].sph = -550 /\ store[1].cyl = 375 /\ store[1].quantity = 1

----------------------------------------------------------------------------
(* Claims about the stock grid and the filters *)

\* the records of the working set at (sph, cyl), as indices of the working set
At(ls, sph, cyl) == {k \in 1..Len(ls) : ls[k].sph = sph /\ ls[k].cyl = cyl}

\* how many times a record of the working set is in a bucket
TimesIn(bucket, lens) == Cardinality({n \in 1..Len(bucket) : bucket[n].id = lens.id})

\* C13: on the stock grid and on the remove-stock grid, the total of every cell
\* of the two axes is the sum of quantity over the records of the working set
\* that pass the screen's filters and have the cell's sph and cyl, it is 0 for a
\* cell with no such record, and every record that passes the filters is once
\* in the bucket of its own cell and in no other bucket.
C13_CellTotals ==
    /\ \A i \in 1..NumSphSteps, j \in 1..NumCylSteps :
          LET sph == (i - 1) * 50 - 600
              cyl == (j - 1) * 25
              key == CellKey(sphSteps[i], cylSteps[j])
              shown == {k \in At(lenses, sph, cyl) : LensStock_passes(lenses[k], stockFilters)}
              offered == {k \in At(lenses, sph, cyl) : PassesFilters(lenses[k], filters)}
              stockBucket == LensStock_gridData(lenses, stockFilters, key)
              outBucket == gridData(lenses, filters, key)
          IN  /\ getTotalQuantity(stockBucket) = SumQuantity(lenses, shown)
              /\ getTotalQuantity(outBucket) = SumQuantity(lenses, offered)
              /\ shown = {} => getTotalQuantity(stockBucket) = 0
              /\ offered = {} => getTotalQuantity(outBucket) = 0
              /\ \A k \in 1..Len(lenses) :
                    /\ TimesIn(stockBucket, lenses[k])
                          = IF k \in shown THEN 1 ELSE 0
                    /\ TimesIn(outBucket, lenses[k])
                          = IF k \in offered THEN 1 ELSE 0
    /\ \A k \in 1..Len(lenses) :
          /\ LensStock_passes(lenses[k], stockFilters) =>
                TimesIn(LensStock_gridData(lenses, stockFilters, LensKey(lenses[k])), lenses[k]) = 1
          /\ PassesFilters(lenses[k], filters) =>
                TimesIn(gridData(lenses, filters, LensKey(lenses[k])), lenses[k]) = 1

\* the working set holds records of 2 (UC) and 5 (HMC) at (-2.00, 1.00) and of
\* 20 and 1 at (1.00, 0.25): with coating UC chosen on the stock grid and no
\* filter on the remove-stock form, the stock grid shows 2 and nothing, the
\* remove-stock grid 7 and 21
C13_Witness ==
    /\ Len(lenses) = 7
    /\ stockFilters.lensCoating = "UC"
    /\ filters = NoFilters
    /\ getTotalQuantity(LensStock_gridData(lenses, stockFilters, KeyOf(<<-200, 100>>))) = 2
    /\ cellText(getTotalQuantity(LensStock_gridData(lenses, stockFilters, KeyOf(<<100, 25>>)))) = <<>>
    /\ getTotalQuantity(gridData(lenses, filters, KeyOf(<<-200, 100>>))) = 7
    /\ getTotalQuantity(gridData(lenses, filters, KeyOf(<<100, 25>>))) = 21

\* the column a filter field of the remove-stock form is compared with
OutColumn(field) ==
    CASE field = "filterLensType" -> "lens_type"
      [] field = "filterLensThickness" -> "lens_thickness"
      [] field = "filterLensColour" -> "lens_colour"
      [] field = "filterLensCoating" -> "lens_coating"

\* the ids of a sequence of records
IdsOf(ls) == {ls[n].id : n \in 1..Len(ls)}

\* sub is made of records of ls, in the order they have in ls
IsSubsequence(sub, ls) ==
    /\ \A n \in 1..Len(sub) : \E k \in 1..Len(ls) : ls[k] = sub[n]
    /\ \A m, n \in 1..Len(sub) :
          m < n => \E k, l \in 1..Len(ls) : k < l /\ ls[k] = sub[m] /\ ls[l] = sub[n]

\* C14: the records the stock grid keeps are exactly the records of the working
\* set whose attribute equals the filter for every filter set among lens type,
\* thickness, colour, diameter and coating, in the order of the working set, so
\* that a record whose attribute is unset is dropped by a set filter and all of
\* the working set is kept when no filter is set; the same holds on the
\* remove-stock form for the filters it has (lens type, thickness, colour and
\* coating).
C14_FilterEvaluator ==
    LET stockSet == {field \in StockFilterFields : stockFilters[field] # "all"}
        stockKeep == {k \in 1..Len(lenses) :
                        \A field \in stockSet :
                            lenses[k][StockColumn(field)] = stockFilters[field]}
        stockKept == LensStock_filteredLenses(lenses, stockFilters)
        outSet == {field \in DOMAIN filters : filters[field] # ""}
        outKeep == {k \in 1..Len(lenses) :
                      \A field \in outSet : lenses[k][OutColumn(field)] = filters[field]}
        outKept == filteredLenses(lenses, filters)
    IN  /\ IdsOf(stockKept) = {lenses[k].id : k \in stockKeep}
        /\ IsSubsequence(stockKept, lenses)
        /\ \A k \in 1..Len(lenses), field \in stockSet :
              lenses[k][StockColumn(field)] = NULL => lenses[k].id \notin IdsOf(stockKept)
        /\ stockSet = {} => stockKept = lenses
        /\ IdsOf(outKept) = {lenses[k].id : k \in outKeep}
        /\ IsSubsequence(outKept, lenses)
        /\ \A k \in 1..Len(lenses), field \in outSet :
              lenses[k][OutColumn(field)] = NULL => lenses[k].id \notin IdsOf(outKept)
        /\ outSet = {} => outKept = lenses

\* over a working set of seven records, diameter 65 on the stock grid keeps the
\* one record of diameter 65 and drops the six whose diameter is unset or not
\* chosen; lens type CR39 on the remove-stock form keeps the three CR39 records
C14_Witness ==
    /\ Len(lenses) = 7
    /\ stockFilters = [StockFilterDefaults EXCEPT !.lensDiameter = "65"]
    /\ Len(LensStock_filteredLenses(lenses, stockFilters)) = 1
    /\ LensStock_filteredLenses(lenses, stockFilters)[1].quantity = 20
    /\ filters = [NoFilters EXCEPT !.filterLensType = "CR39"]
    /\ Len(filteredLenses(lenses, filters)) = 3

\* the stock level the grid shows for the cell of a key
LevelAt(key) == Legend(bgColor(getTotalQuantity(LensStock_gridData(lenses, stockFilters, key))))

\* C15: every cell of the stock grid has exactly one stock level, given by its
\* total t >= 0 alone: 'Out of Stock' exactly when t = 0, 'Low Stock' exactly
\* when 1 <= t <= 5, 'Medium Stock' exactly when 6 <= t <= 20 and 'High Stock'
\* exactly when t > 20.
C15_StockLevels ==
    \A i \in 1..NumSphSteps, j \in 1..NumCylSteps :
        LET key == CellKey(sphSteps[i], cylSteps[j])
            t == getTotalQuantity(LensStock_gridData(lenses, stockFilters, key))
            level == Legend(bgColor(t))
        IN  /\ t >= 0
            /\ level \in {"Out of Stock", "Low Stock", "Medium Stock", "High Stock"}
            /\ level = "Out of Stock" <=> t = 0
            /\ level = "Low Stock" <=> (1 <= t /\ t <= 5)
            /\ level = "Medium Stock" <=> (6 <= t /\ t <= 20)
            /\ level = "High Stock" <=> t > 20

\* one stock grid with the four levels: 6 at (-6.00, 4.00) is medium, a record
\* of 0 at (0.00, 0.00) is out of stock, 3 at (0.50, 0.00) is low, 20 + 1 at
\* (1.00, 0.25) is high
C15_Witness ==
    /\ Len(lenses) = 7
    /\ stockFilters = StockFilterDefaults
    /\ LevelAt(KeyOf(<<-600, 400>>)) = "Medium Stock"
    /\ LevelAt(KeyOf(<<0, 0>>)) = "Out of Stock"
    /\ LevelAt(KeyOf(<<50, 0>>)) = "Low Stock"
    /\ LevelAt(KeyOf(<<100, 25>>)) = "High Stock"

====
